---- MODULE Spec2Model ----
(***************************************************************************)
(* A model of sonicwall_to_mx.py: the translation of a SonicWall show-run  *)
(* configuration into Meraki MX policy objects, groups and firewall rules. *)
(*                                                                         *)
(* Identifiers and the free text of a line are sequences of pieces.  A     *)
(* piece is a character the code treats specially (".", ":", "*", "_", the *)
(* double quote, a blank), a word the code searches a text for as a        *)
(* substring ("any", "name", "group", "exit", "__range__", ...), or a run  *)
(* of other characters ("h1", "comp").                                     *)
(***************************************************************************)
EXTENDS Integers, Sequences, FiniteSets, TLC

\* ------------------------------------------------------------------ bounds
\* Width of an address in bits (the code works on 32-bit IPv4 addresses).
IpBits == 4

VARIABLES
    cover,                  \* the range under summarisation (SpecRange)
    combine,                \* the services under combination (SpecCombine)
    earlier,                \* the outcome of the run on another order (SpecOrder)
    pc,                     \* where main() / create_objects() stands
    loaded,                 \* the stanzas of the current pass have been found
    work,                   \* the stanzas of the current pass (after splitting)
    idx,                    \* the stanza the loop of the current pass is at
    pending,                \* a range object whose children are being created
    file,                   \* the stanzas of the show-run file read so far, by pass
    run,                    \* the number of the run of the script (1, 2)
    mode,                   \* the family of show-run files under consideration
    remote_objs,            \* Dashboard: the organization's Policy Objects
    remote_grps,            \* Dashboard: the organization's Policy Object Groups
    listed,                 \* what the Dashboard listed when the run started
    objects,
    fqdn_objects,
    range_objects,
    object_groups,
    range_object_groups,
    fqdn_object_groups,
    group_of_groups,
    service_objects,
    service_object_groups,
    service_group_of_groups,
    default_zone_map,
    MAPPING_FLAG,
    VLAN_ANSWER,            \* the answer to "create default VLAN zone rules?"
    broken_objects,         \* unprocessed_objects.txt
    broken_rules,           \* unprocessed_rules.txt
    acl_list,               \* parse_rules' result
    l3_rules,               \* Dashboard: the network's L3 (outbound) rules
    inbound_rules,          \* Dashboard: the network's inbound rules
    vpn_rules,              \* Dashboard: the organization's site-to-site rules
    written                 \* the rulesets written in the runs so far

\* ------------------------------------------------------------- arithmetic
Min(a, b) == IF a <= b THEN a ELSE b

RECURSIVE Pow2(_)
Pow2(n) == IF n = 0 THEN 1 ELSE 2 * Pow2(n - 1)

\* int.bit_length()
RECURSIVE bit_length(_)
bit_length(n) == IF n = 0 THEN 0 ELSE 1 + bit_length(n \div 2)

RECURSIVE TrailingZeros(_)
TrailingZeros(n) == IF n % 2 = 1 THEN 0 ELSE 1 + TrailingZeros(n \div 2)

\* ipaddress._count_righthand_zero_bits(number, bits)
count_righthand_zero_bits(number, bits) ==
    IF number = 0 THEN bits ELSE Min(bits, TrailingZeros(number))

ALL_ONES == Pow2(IpBits) - 1

Addresses == 0 .. ALL_ONES

\* ------------------------------------------- ipaddress.summarize_address_range
\* A network is [ip |-> first address, len |-> prefix length].
range_nbits_aligned(first_int, last_int) ==
    count_righthand_zero_bits(first_int, IpBits)

\* The size (in bits) of the next network: as large as the alignment of the
\* first address and the number of addresses left allow.
range_nbits(first_int, last_int) ==
    Min(count_righthand_zero_bits(first_int, IpBits),
        bit_length(last_int - first_int + 1) - 1)

RECURSIVE summarize_loop(_, _)
summarize_loop(first_int, last_int) ==
    IF first_int > last_int THEN <<>>
    ELSE LET nbits == range_nbits(first_int, last_int)
             net   == [ip |-> first_int, len |-> IpBits - nbits]
             nxt   == first_int + Pow2(nbits)
         IN  IF nxt - 1 = ALL_ONES THEN <<net>>
             ELSE <<net>> \o summarize_loop(nxt, last_int)

\* summarize_address_range(first, last): raises ValueError when first > last.
summarize_address_range(first, last) ==
    IF first > last THEN [err |-> TRUE, nets |-> <<>>]
    ELSE [err |-> FALSE, nets |-> summarize_loop(first, last)]

\* The addresses of a network.
NetAddrs(net) == net.ip .. (net.ip + Pow2(IpBits - net.len) - 1)

\* A well-formed CIDR block: its first address is a multiple of its size.
IsCidr(net) == /\ net.len \in 0 .. IpBits
               /\ net.ip % Pow2(IpBits - net.len) = 0

\* ------------------------------------------------------------------- text
QUOTE == "\""
BLANK == " "

Range(s) == {s[i] : i \in 1 .. Len(s)}

\* `piece in text`: the substring test on a text.
Contains(text, piece) == piece \in Range(text)

\* text.replace(piece, '')
RECURSIVE Remove(_, _)
Remove(text, piece) ==
    IF text = <<>> THEN <<>>
    ELSE IF Head(text) = piece THEN Remove(Tail(text), piece)
    ELSE <<Head(text)>> \o Remove(Tail(text), piece)

\* text.replace(piece, by), by one character
RECURSIVE Replace(_, _, _)
Replace(text, piece, by) ==
    IF text = <<>> THEN <<>>
    ELSE <<IF Head(text) = piece THEN by ELSE Head(text)>>
             \o Replace(Tail(text), piece, by)

RECURSIVE LStrip(_)
LStrip(text) ==
    IF text # <<>> /\ Head(text) = BLANK THEN LStrip(Tail(text)) ELSE text

RECURSIVE RStrip(_)
RStrip(text) ==
    IF text # <<>> /\ text[Len(text)] = BLANK
    THEN RStrip(SubSeq(text, 1, Len(text) - 1)) ELSE text

\* text.strip()
Strip(text) == RStrip(LStrip(text))

\* .replace('"', '').replace('.', '_').replace(':', '_')
sanitize_ipv4(text) == Replace(Replace(Remove(text, QUOTE), ".", "_"), ":", "_")

\* .replace('"', '').replace('.', '_').replace(':', '_').replace('*', '_')
sanitize_fqdn(text) == Replace(sanitize_ipv4(text), "*", "_")

\* .replace('"', '')
sanitize_quote(text) == Remove(text, QUOTE)

RANGE_SUFFIX == <<"__range__">>
FQDN_SPLIT   == <<"__fqdn__split">>
IPV4_SPLIT   == <<"__ipv4__split">>

\* str(idx) appended to a name: one piece per decimal number
Digit(i) == <<ToString(i)>>

\* ----------------------------------------------------------- the show-run
\* A line of the file: its leading keyword, the text after it (identifiers,
\* references), and the numbers and words of an object line.
Line(kw, text) == [kw |-> kw, text |-> text, a |-> 0, b |-> 0, s |-> ""]
Host(ip)           == [kw |-> "host",    text |-> <<>>, a |-> ip, b |-> 0,  s |-> ""]
Network(ip, mask)  == [kw |-> "network", text |-> <<>>, a |-> ip, b |-> 0,  s |-> mask]
IpRange(lo, hi)    == [kw |-> "range",   text |-> <<>>, a |-> lo, b |-> hi, s |-> ""]
Word(kw, w)        == [kw |-> kw, text |-> <<>>, a |-> 0, b |-> 0, s |-> w]

\* A stanza: a top-level line and its children.  text is the header after
\* its keyword; words are the blank-separated words after the name of a
\* service-object; hdr are the fields a rule header carries after its zones.
Stanza(kw, text, children) ==
    [kw |-> kw, text |-> text, words |-> <<>>, hdr |-> <<>>, children |-> children]
ServiceStanza(text, words) ==
    [kw |-> "service-object", text |-> text, words |-> words, hdr |-> <<>>,
     children |-> <<>>]
RuleStanza(hdr, children) ==
    [kw |-> "access-rule ipv4", text |-> <<>>, words |-> <<>>, hdr |-> hdr,
     children |-> children]

\* `'exit' in val.text`
HasExit(line) == line.kw = "exit" \/ Contains(line.text, "exit")

\* Tables: a dict is a function on the set of its keys.
EmptyDict == [k \in {} |-> 0]
Put(d, k, v) == [x \in DOMAIN d \cup {k} |-> IF x = k THEN v ELSE d[x]]
Values(d) == {d[k] : k \in DOMAIN d}

\* -------------------------------------------------------------- Dashboard
\* A Policy Object's id is its place in remote_objs; a Policy Object Group's
\* id is minus its place in remote_grps.
ObjId(i) == i
GrpId(i) == 0 - i

NoCidr == [ip |-> 0, len |-> 0]

\* createOrganizationPolicyObject
CidrObject(name, cidr) == [name |-> name, type |-> "cidr", cidr |-> cidr, fqdn |-> ""]
FqdnObject(name, fqdn) == [name |-> name, type |-> "fqdn", cidr |-> NoCidr, fqdn |-> fqdn]
\* createOrganizationPolicyObjectsGroup
Group(name, objectIds) == [name |-> name, objectIds |-> objectIds]

\* The id the Dashboard gives the next object / group.
NextObjId == ObjId(Len(remote_objs) + 1)
NextGrpId == GrpId(Len(remote_grps) + 1)

\* ---------------------------------------------------- create_objects: start
\* for obj in policy_objects: objects / fqdn_objects by type
RECURSIVE list_objects(_, _, _)
list_objects(objs, i, type) ==
    IF i > Len(objs) THEN EmptyDict
    ELSE LET rest == list_objects(objs, i + 1, type)
         IN  IF objs[i].type = type /\ objs[i].name \notin DOMAIN rest
             THEN Put(rest, objs[i].name, ObjId(i))
             ELSE rest

\* The table a listed group goes to: names holding __range__ are range
\* objects; a group all of whose members are known cidr objects is an IPv4
\* group; any other is an FQDN group.
classify_group(grp, cidr_ids) ==
    IF Contains(grp.name, "__range__") THEN "range"
    ELSE IF \A n \in 1 .. Len(grp.objectIds) : grp.objectIds[n] \in cidr_ids
         THEN "group"
         ELSE "fqdn"

RECURSIVE list_groups(_, _, _, _)
list_groups(grps, i, class, cidr_ids) ==
    IF i > Len(grps) THEN EmptyDict
    ELSE LET rest == list_groups(grps, i + 1, class, cidr_ids)
         IN  IF classify_group(grps[i], cidr_ids) = class
                  /\ grps[i].name \notin DOMAIN rest
             THEN Put(rest, grps[i].name, GrpId(i))
             ELSE rest

\* The names the Dashboard returns when the run starts.
ListedNames == [objs |-> {remote_objs[i].name : i \in 1 .. Len(remote_objs)},
                grps |-> {remote_grps[i].name : i \in 1 .. Len(remote_grps)},
                nobjs |-> Len(remote_objs), ngrps |-> Len(remote_grps)]

\* ----------------------------------------------------------- SUBNET_MASKS
\* Subnet / wildcard mask to CIDR prefix length lookup table
SUBNET_MASKS ==
    ("128.0.0.0" :> 1) @@ ("127.255.255.255" :> 1) @@
    ("192.0.0.0" :> 2) @@ ("63.255.255.255" :> 2) @@
    ("224.0.0.0" :> 3) @@ ("31.255.255.255" :> 3) @@
    ("240.0.0.0" :> 4) @@ ("15.255.255.255" :> 4) @@
    ("248.0.0.0" :> 5) @@ ("7.255.255.255" :> 5) @@
    ("252.0.0.0" :> 6) @@ ("3.255.255.255" :> 6) @@
    ("254.0.0.0" :> 7) @@ ("1.255.255.255" :> 7) @@
    ("255.0.0.0" :> 8) @@ ("0.255.255.255" :> 8) @@
    ("255.128.0.0" :> 9) @@ ("0.127.255.255" :> 9) @@
    ("255.192.0.0" :> 10) @@ ("0.63.255.255" :> 10) @@
    ("255.224.0.0" :> 11) @@ ("0.31.255.255" :> 11) @@
    ("255.240.0.0" :> 12) @@ ("0.15.255.255" :> 12) @@
    ("255.248.0.0" :> 13) @@ ("0.7.255.255" :> 13) @@
    ("255.252.0.0" :> 14) @@ ("0.3.255.255" :> 14) @@
    ("255.254.0.0" :> 15) @@ ("0.1.255.255" :> 15) @@
    ("255.255.0.0" :> 16) @@ ("0.0.255.255" :> 16) @@
    ("255.255.128.0" :> 17) @@ ("0.0.0.127.255" :> 17) @@
    ("255.255.192.0" :> 18) @@ ("0.0.63.255" :> 18) @@
    ("255.255.224.0" :> 19) @@ ("0.0.31.255" :> 19) @@
    ("255.255.240.0" :> 20) @@ ("0.0.15.255" :> 20) @@
    ("255.255.248.0" :> 21) @@ ("0.0.7.255" :> 21) @@
    ("255.255.252.0" :> 22) @@ ("0.0.3.255" :> 22) @@
    ("255.255.254.0" :> 23) @@ ("0.0.1.255" :> 23) @@
    ("255.255.255.0" :> 24) @@ ("0.0.0.255" :> 24) @@
    ("255.255.255.128" :> 25) @@ ("0.0.0.127" :> 25) @@
    ("255.255.255.192" :> 26) @@ ("0.0.0.63" :> 26) @@
    ("255.255.255.224" :> 27) @@ ("0.0.0.31" :> 27) @@
    ("255.255.255.240" :> 28) @@ ("0.0.0.15" :> 28) @@
    ("255.255.255.248" :> 29) @@ ("0.0.0.7" :> 29) @@
    ("255.255.255.252" :> 30) @@ ("0.0.0.3" :> 30) @@
    ("255.255.255.254" :> 31) @@ ("0.0.0.1" :> 31) @@
    ("255.255.255.255" :> 32) @@ ("0.0.0.0" :> 32)

\* -------------------------------------------------------- build_mx_object
\* A record of unprocessed_objects.txt / unprocessed_rules.txt: the entity
\* named (keyword and text) and the reason given (message and what it is
\* about).
Record(kw, text, reason, about) ==
    [kw |-> kw, text |-> text, reason |-> reason, about |-> about]

\* What build_mx_object returns: ret is "ok" (a dict), "none" (None) or
\* "crash" (an exception leaves the script); log is what it wrote to
\* broken_fp.
None(log) == [ret |-> "none", log |-> log]
Crash     == [ret |-> "crash", log |-> <<>>]

\* object_type == 'object': the child lines of an address-object ipv4
RECURSIVE object_lines(_, _)
object_lines(lines, mx) ==
    IF lines = <<>> \/ mx.ret = "crash" THEN mx
    ELSE LET l == Head(lines)
             m == CASE l.kw = "host" ->
                         [mx EXCEPT !.type = "cidr", !.cidr = [ip |-> l.a, len |-> 32]]
                    [] l.kw = "network" ->
                         IF l.s \in DOMAIN SUBNET_MASKS
                         THEN [mx EXCEPT !.type = "cidr",
                                         !.cidr = [ip |-> l.a, len |-> SUBNET_MASKS[l.s]]]
                         ELSE [mx EXCEPT !.ret = "crash"]       \* KeyError
                    [] l.kw = "range" ->
                         LET r == summarize_address_range(l.a, l.b)
                         IN  IF r.err THEN [mx EXCEPT !.ret = "crash"]  \* ValueError
                             ELSE [mx EXCEPT !.type = "cidr", !.has_range = TRUE,
                                             !.range = r.nets]
                    [] OTHER -> mx
         IN  object_lines(Tail(lines), m)

object_exists_by_name_only(name) == name \in DOMAIN objects

\* Ignore objects that already exist, by their name or as a range
object_exists(name) ==
    name \in DOMAIN objects \/ name \o RANGE_SUFFIX \in DOMAIN range_objects

build_object(element) ==
    LET name == sanitize_ipv4(element.text)
    IN  IF ~object_exists(name)
        THEN IF Len(element.children) = 0 THEN None(<<>>)
             ELSE LET mx == object_lines(element.children,
                               [ret |-> "ok", log |-> <<>>, name |-> name, type |-> "",
                                cidr |-> NoCidr, has_range |-> FALSE, range |-> <<>>])
                  IN  IF mx.ret = "crash" THEN Crash
                      ELSE IF mx.type = ""
                      THEN None(<<Record(element.kw, element.text,
                                         "No valid host or network line", <<>>)>>)
                      ELSE mx
        ELSE None(<<>>)

\* object_type == 'fqdn'
RECURSIVE fqdn_lines(_, _)
fqdn_lines(lines, mx) ==
    IF lines = <<>> THEN mx
    ELSE LET l == Head(lines)
         IN  fqdn_lines(Tail(lines),
                        IF l.kw = "domain"
                        THEN [mx EXCEPT !.type = "fqdn", !.fqdn = l.s] ELSE mx)

build_fqdn(element) ==
    LET name == sanitize_fqdn(element.text)
    IN  IF name \notin DOMAIN fqdn_objects
        THEN IF Len(element.children) = 0 THEN None(<<>>)
             ELSE LET mx == fqdn_lines(element.children,
                               [ret |-> "ok", log |-> <<>>, name |-> name, type |-> "",
                                fqdn |-> ""])
                  IN  IF mx.type = ""
                      THEN None(<<Record(element.kw, element.text, "No domain line", <<>>)>>)
                      ELSE mx
        ELSE None(<<>>)

\* object_type == 'group': the child lines of an address-group ipv4
RECURSIVE group_lines(_, _, _)
group_lines(lines, element, mx) ==
    IF lines = <<>> THEN mx
    ELSE LET l == Head(lines)
             content == sanitize_ipv4(Strip(l.text))
             invalid == [mx EXCEPT !.log = Append(@,
                            Record(element.kw, element.text, "Invalid object", content))]
             m == CASE l.kw = "address-object ipv4" ->
                         IF content \notin DOMAIN objects
                              /\ content \o RANGE_SUFFIX \notin DOMAIN range_objects
                         THEN invalid
                         ELSE IF content \in DOMAIN objects
                         THEN [mx EXCEPT !.objectIds = Append(@, objects[content])]
                         ELSE [mx EXCEPT !.rangeIds =
                                  Append(@, range_objects[content \o RANGE_SUFFIX])]
                    [] l.kw = "address-group ipv4" ->
                         IF content \notin DOMAIN object_groups
                         THEN invalid
                         ELSE [mx EXCEPT !.group_of_groups =
                                  Append(@, object_groups[content])]
                    [] OTHER -> mx
         IN  group_lines(Tail(lines), element, m)

build_group(element) ==
    LET name == sanitize_ipv4(element.text)
    IN  IF name \notin DOMAIN object_groups
        THEN IF Len(element.children) = 0 THEN None(<<>>)
             ELSE group_lines(element.children, element,
                      [ret |-> "ok", log |-> <<>>, name |-> name, objectIds |-> <<>>,
                       rangeIds |-> <<>>, group_of_groups |-> <<>>])
        ELSE None(<<>>)

\* object_type == 'group-ipv6': the child lines of an address-group ipv6
RECURSIVE group6_lines(_, _, _)
group6_lines(lines, element, mx) ==
    IF lines = <<>> THEN mx
    ELSE LET l == Head(lines)
             fq == sanitize_fqdn(Strip(l.text))
             v4 == sanitize_ipv4(Strip(l.text))
             invalid(content) ==
                 [mx EXCEPT !.log = Append(@,
                     Record(element.kw, element.text, "Invalid object", content))]
             m == CASE l.kw = "address-object fqdn" ->
                         IF fq \notin DOMAIN fqdn_objects THEN invalid(fq)
                         ELSE [mx EXCEPT !.objectFQDNs = Append(@, fqdn_objects[fq])]
                    [] l.kw = "address-object ipv4" ->
                         IF v4 \notin DOMAIN objects THEN invalid(v4)
                         ELSE [mx EXCEPT !.objectIds = Append(@, objects[v4])]
                    [] OTHER -> mx
         IN  group6_lines(Tail(lines), element, m)

\* The group, were its IPv4 members left out.
build_group_ipv6_fqdn_only(element) ==
    LET name == sanitize_quote(element.text)
    IN  IF name \notin DOMAIN object_groups /\ name \notin DOMAIN fqdn_object_groups
        THEN IF Len(element.children) = 0 THEN None(<<>>)
             ELSE [group6_lines(element.children, element,
                       [ret |-> "ok", log |-> <<>>, name |-> name, objectIds |-> <<>>,
                        objectFQDNs |-> <<>>])
                     EXCEPT !.objectIds = <<>>]
        ELSE None(<<>>)

build_group_ipv6(element) ==
    LET name == sanitize_quote(element.text)
    IN  IF name \notin DOMAIN object_groups /\ name \notin DOMAIN fqdn_object_groups
        THEN IF Len(element.children) = 0 THEN None(<<>>)
             ELSE group6_lines(element.children, element,
                      [ret |-> "ok", log |-> <<>>, name |-> name, objectIds |-> <<>>,
                       objectFQDNs |-> <<>>])
        ELSE None(<<>>)

\* object_type == 'service'.  A port expression is a text: <<"80">>,
\* <<"1000", "-", "2000">>, <<"N/A">>.
\* The text between the first two quotes of a quoted name.
RECURSIVE UpToQuote(_)
UpToQuote(text) ==
    IF text = <<>> \/ Head(text) = QUOTE THEN <<>>
    ELSE <<Head(text)>> \o UpToQuote(Tail(text))

service_name(text) == IF Head(text) = QUOTE THEN UpToQuote(Tail(text)) ELSE text

build_service(element) ==
    LET quoted == Head(element.text) = QUOTE
        name   == service_name(element.text)
        w      == element.words
    IN  IF Len(w) = 0 THEN Crash                                \* IndexError
        ELSE IF w[1] \in {"TCP", "UDP"}
        THEN IF Len(w) < 3 THEN Crash                           \* IndexError
             ELSE [ret |-> "ok", log |-> <<>>, name |-> name, protocol |-> w[1],
                   port |-> IF w[2] = w[3] THEN <<w[2]>> ELSE <<w[2], "-", w[3]>>]
        ELSE IF w[1] \in {"ICMP", "ICMPV6"}
        THEN [ret |-> "ok", log |-> <<>>, name |-> name, protocol |-> w[1],
              port |-> <<"N/A">>]
        ELSE IF quoted
        THEN None(<<Record("service object", name, "Invalid Service Object", <<>>)>>)
        ELSE None(<<>>)

\* object_type == 'service-group': the child lines of a service-group
RECURSIVE service_group_lines(_, _, _)
service_group_lines(lines, element, mx) ==
    IF lines = <<>> THEN mx
    ELSE LET l == Head(lines)
             content == sanitize_quote(Strip(l.text))
             invalid == [mx EXCEPT !.log = Append(@,
                            Record(element.kw, element.text, "Invalid service object",
                                   content))]
             m == CASE l.kw = "service-object" ->
                         IF content \notin DOMAIN service_objects THEN invalid
                         ELSE [mx EXCEPT !.service_objects =
                                  Append(@, service_objects[content])]
                    [] l.kw = "service-group" ->
                         IF content \notin DOMAIN service_object_groups THEN invalid
                         ELSE [mx EXCEPT !.group_of_groups =
                                  @ \o service_object_groups[content]]
                    [] OTHER -> mx
         IN  service_group_lines(Tail(lines), element, m)

build_service_group(element) ==
    LET name == sanitize_quote(element.text)
    IN  IF name \notin DOMAIN service_object_groups
        THEN IF Len(element.children) = 0 THEN None(<<>>)
             ELSE LET mx == service_group_lines(element.children, element,
                               [ret |-> "ok", log |-> <<>>, name |-> name,
                                service_objects |-> <<>>, group_of_groups |-> <<>>])
                  IN  IF Len(mx.service_objects) = 0
                      THEN None(Append(mx.log,
                               Record(element.kw, element.text,
                                      "No valid service object line", <<>>)))
                      ELSE mx
        ELSE None(<<>>)

\* ----------------------------------------------------- duplicate_splitter
\* The text of a child line as it stands in the file.
LineText(l) == IF l.kw = "name" THEN l.text ELSE <<l.kw, BLANK>> \o l.text

\* idx_list: the places after each child holding 'exit'
ExitPlaces(children) == {i \in 1 .. Len(children) : HasExit(children[i])}

Least(S) == CHOOSE x \in S : \A y \in S : x <= y

\* res[0] and res[1]: the children up to the first exit, and those after it
\* up to the second exit (or the end).  No res[1] when the only exit is the
\* last child.
FirstPart(children) == SubSeq(children, 1, Least(ExitPlaces(children)))

SecondPart(children) ==
    LET e1   == Least(ExitPlaces(children))
        more == {i \in ExitPlaces(children) : i > e1}
        e2   == IF more = {} THEN Len(children) ELSE Least(more)
    IN  SubSeq(children, e1 + 1, e2)

Splits(element) ==
    ExitPlaces(element.children) # {} /\ SecondPart(element.children) # <<>>

\* The clone built from res[1]: a rule keeps its header, any other stanza is
\* named by the first line of res[1] without its 'name '.
clone_of(element, object_type) ==
    LET part == SecondPart(element.children)
    IN  IF object_type = "rule"
        THEN [element EXCEPT !.text = @ \o <<"(Sub Rule)">>, !.children = part]
        ELSE [element EXCEPT !.text = Strip(LineText(part[1])), !.children = part]

RECURSIVE new_entries(_, _)
new_entries(object_list, object_type) ==
    IF object_list = <<>> THEN <<>>
    ELSE (IF Splits(Head(object_list))
          THEN <<clone_of(Head(object_list), object_type)>> ELSE <<>>)
         \o new_entries(Tail(object_list), object_type)

\* The list, were each clone put next to the element it is split from.
duplicate_splitter_clone_beside(object_list, object_type) ==
    LET RECURSIVE beside(_)
        beside(lst) ==
            IF lst = <<>> THEN <<>>
            ELSE (IF Splits(Head(lst))
                  THEN <<[Head(lst) EXCEPT !.children = FirstPart(@)],
                         clone_of(Head(lst), object_type)>>
                  ELSE <<Head(lst)>>)
                 \o beside(Tail(lst))
    IN  beside(object_list)

\* The list after `lst += duplicate_splitter(lst, type)`: every element that
\* splits keeps res[0], and the clones follow the elements of the file.
duplicate_splitter(object_list, object_type) ==
    [i \in 1 .. Len(object_list) |->
        IF Splits(object_list[i])
        THEN [object_list[i] EXCEPT !.children = FirstPart(@)]
        ELSE object_list[i]]
    \o new_entries(object_list, object_type)

\* find_objects_wo_child / find_objects_w_child
RECURSIVE SelectSeq2(_, _, _)
SelectSeq2(s, kw, with) ==
    IF s = <<>> THEN <<>>
    ELSE (IF (\E i \in 1 .. Len(Head(s).children) : Head(s).children[i].kw = kw) = with
          THEN <<Head(s)>> ELSE <<>>)
         \o SelectSeq2(Tail(s), kw, with)

find_objects_wo_child(s, kw) == SelectSeq2(s, kw, FALSE)
find_objects_w_child(s, kw)  == SelectSeq2(s, kw, TRUE)

\* --------------------------------------------------------- variable groups
ctl       == <<pc, loaded, work, idx, pending>>
addr_tabs == <<objects, fqdn_objects, range_objects, object_groups,
               range_object_groups, fqdn_object_groups, group_of_groups>>
svc_tabs  == <<service_objects, service_object_groups, service_group_of_groups>>
remote    == <<remote_objs, remote_grps>>
rulesets  == <<l3_rules, inbound_rules, vpn_rules, written>>
rule_vars == <<acl_list, broken_rules, default_zone_map>>
env       == <<cover, combine, earlier, file, run, mode, listed, MAPPING_FLAG, VLAN_ANSWER>>

vars == <<ctl, addr_tabs, svc_tabs, remote, rulesets, rule_vars, env, broken_objects>>

NoPending == [name |-> <<>>, nets |-> <<>>, ids |-> <<>>, n |-> 0, on |-> FALSE]

\* The order, were the FQDN objects compiled before the IPv4 objects.
NextPc_fqdn_first(p) ==
    CASE p = "main"    -> "list"
      [] p = "list"    -> "fqdn"
      [] p = "fqdn"    -> "ipv4"
      [] p = "ipv4"    -> "group"
      [] p = "group"   -> "group6"
      [] p = "group6"  -> "nested"
      [] p = "nested"  -> "service"
      [] p = "service" -> "sgroup"
      [] p = "sgroup"  -> "snested"
      [] p = "snested" -> "rules"
      [] p = "rules"   -> "mx_rules"
      [] p = "mx_rules" -> "vlan_ask"
      [] p = "vlan_ask" -> "vlan_rules"
      [] p = "vlan_rules" -> "csv"
      [] p = "csv" -> "done"

\* The order of the passes of create_objects and of the steps of main.
NextPc(p) ==
    CASE p = "main"    -> "list"
      [] p = "list"    -> "ipv4"
      [] p = "ipv4"    -> "fqdn"
      [] p = "fqdn"    -> "group"
      [] p = "group"   -> "group6"
      [] p = "group6"  -> "nested"
      [] p = "nested"  -> "service"
      [] p = "service" -> "sgroup"
      [] p = "sgroup"  -> "snested"
      [] p = "snested" -> "rules"
      [] p = "rules"   -> "mx_rules"
      [] p = "mx_rules" -> "vlan_ask"
      [] p = "vlan_ask" -> "vlan_rules"
      [] p = "vlan_rules" -> "csv"
      [] p = "csv" -> "done"

Passes == {"ipv4", "fqdn", "group", "group6", "nested", "service", "sgroup",
           "snested", "rules"}

\* The loop of a pass has an element left.
InLoop(p) == pc = p /\ loaded /\ ~pending.on /\ idx <= Len(work)

EndPass == /\ pc' = NextPc(pc) /\ loaded' = FALSE /\ work' = <<>> /\ idx' = 1
           /\ UNCHANGED pending
NextElement == idx' = idx + 1 /\ UNCHANGED <<pc, loaded, work, pending>>
Abort == /\ pc' = "abort" /\ UNCHANGED <<loaded, work, idx, pending>>

\* ------------------------------------------------- create_objects: passes
\* Grab the existing policy objects and groups; open unprocessed_objects.txt.
ListPolicyObjects ==
    /\ pc = "list"
    /\ LET cidrs == list_objects(remote_objs, 1, "cidr")
       IN  /\ objects' = cidrs
           /\ fqdn_objects' = list_objects(remote_objs, 1, "fqdn")
           /\ range_objects' = list_groups(remote_grps, 1, "range", Values(cidrs))
           /\ object_groups' = list_groups(remote_grps, 1, "group", Values(cidrs))
           /\ fqdn_object_groups' = list_groups(remote_grps, 1, "fqdn", Values(cidrs))
    /\ listed' = ListedNames
    /\ broken_objects' = <<>>
    /\ pc' = NextPc(pc)
    /\ UNCHANGED <<loaded, work, idx, pending, range_object_groups, group_of_groups,
                   svc_tabs, remote, rulesets, rule_vars, cover, combine, earlier, file, run,
                   mode, MAPPING_FLAG, VLAN_ANSWER>>

\* Pass 1: address-object ipv4
PassIPv4 ==
    /\ pc = "ipv4" /\ loaded /\ ~pending.on
    /\ IF idx > Len(work)
       THEN EndPass /\ UNCHANGED <<addr_tabs, remote, broken_objects>>
       ELSE LET mx == build_object(work[idx])
            IN  CASE mx.ret = "crash" ->
                       Abort /\ UNCHANGED <<addr_tabs, remote, broken_objects>>
                  [] mx.ret = "none" ->
                       /\ broken_objects' = broken_objects \o mx.log
                       /\ NextElement
                       /\ UNCHANGED <<addr_tabs, remote>>
                  [] mx.ret = "ok" /\ mx.has_range ->
                       \* the children of the range are created one call at a time
                       /\ pending' = [name |-> mx.name, nets |-> mx.range, ids |-> <<>>,
                                      n |-> 0, on |-> TRUE]
                       /\ UNCHANGED <<pc, loaded, work, idx, addr_tabs, remote,
                                      broken_objects>>
                  [] OTHER ->
                       /\ remote_objs' = Append(remote_objs, CidrObject(mx.name, mx.cidr))
                       /\ objects' = Put(objects, mx.name, NextObjId)
                       /\ NextElement
                       /\ UNCHANGED <<fqdn_objects, range_objects, object_groups,
                                      range_object_groups, fqdn_object_groups,
                                      group_of_groups, remote_grps, broken_objects>>
    /\ UNCHANGED <<svc_tabs, rulesets, rule_vars, env>>

\* Pass 1, range case: one createOrganizationPolicyObject per CIDR of the
\* range, then the group <name>__range__ of the ids (no empty groups).
range_group_guard(object_ids) == Len(object_ids) > 0

RangeObject ==
    /\ pc = "ipv4" /\ pending.on
    /\ IF pending.nets # <<>>
       THEN /\ remote_objs' = Append(remote_objs,
                  CidrObject(pending.name \o RANGE_SUFFIX \o Digit(pending.n),
                             Head(pending.nets)))
            /\ pending' = [pending EXCEPT !.nets = Tail(@), !.n = @ + 1,
                                          !.ids = Append(@, NextObjId)]
            /\ UNCHANGED <<pc, loaded, work, idx, remote_grps, range_objects>>
       ELSE /\ IF range_group_guard(pending.ids)
               THEN /\ remote_grps' = Append(remote_grps,
                          Group(pending.name \o RANGE_SUFFIX, pending.ids))
                    /\ range_objects' = Put(range_objects, pending.name \o RANGE_SUFFIX,
                                            NextGrpId)
               ELSE UNCHANGED <<remote_grps, range_objects>>
            /\ pending' = NoPending
            /\ idx' = idx + 1
            /\ UNCHANGED <<pc, loaded, work, remote_objs>>
    /\ UNCHANGED <<objects, fqdn_objects, object_groups, range_object_groups,
                   fqdn_object_groups, group_of_groups, svc_tabs, rulesets, rule_vars,
                   env, broken_objects>>

\* Pass 2: address-object fqdn
PassFqdn ==
    /\ pc = "fqdn" /\ loaded
    /\ IF idx > Len(work)
       THEN EndPass /\ UNCHANGED <<addr_tabs, remote, broken_objects>>
       ELSE LET mx == build_fqdn(work[idx])
            IN  IF mx.ret = "none"
                THEN /\ broken_objects' = broken_objects \o mx.log
                     /\ NextElement
                     /\ UNCHANGED <<addr_tabs, remote>>
                ELSE /\ remote_objs' = Append(remote_objs, FqdnObject(mx.name, mx.fqdn))
                     /\ fqdn_objects' = Put(fqdn_objects, mx.name, NextObjId)
                     /\ NextElement
                     /\ UNCHANGED <<objects, range_objects, object_groups,
                                    range_object_groups, fqdn_object_groups,
                                    group_of_groups, remote_grps, broken_objects>>
    /\ UNCHANGED <<svc_tabs, rulesets, rule_vars, env>>

\* Pass 3: address-group ipv4 without a nested address-group ipv4
group_guard_none(object_ids) == TRUE

group_guard(object_ids) == Len(object_ids) > 0

PassGroup ==
    /\ pc = "group" /\ loaded
    /\ IF idx > Len(work)
       THEN EndPass /\ UNCHANGED <<addr_tabs, remote, broken_objects>>
       ELSE LET mx == build_group(work[idx])
            IN  CASE mx.ret = "none" ->
                       /\ broken_objects' = broken_objects \o mx.log
                       /\ NextElement
                       /\ UNCHANGED <<addr_tabs, remote>>
                  [] mx.ret = "ok" /\ Len(mx.rangeIds) > 0 ->
                       /\ range_object_groups' =
                              Put(range_object_groups, mx.name \o RANGE_SUFFIX,
                                  <<mx.objectIds, mx.rangeIds>>)
                       /\ broken_objects' = broken_objects \o mx.log
                       /\ NextElement
                       /\ UNCHANGED <<objects, fqdn_objects, range_objects, object_groups,
                                      fqdn_object_groups, group_of_groups, remote>>
                  [] mx.ret = "ok" /\ Len(mx.rangeIds) = 0
                        /\ group_guard(mx.objectIds) ->
                       /\ remote_grps' = Append(remote_grps, Group(mx.name, mx.objectIds))
                       /\ object_groups' = Put(object_groups, mx.name, NextGrpId)
                       /\ broken_objects' = broken_objects \o mx.log
                       /\ NextElement
                       /\ UNCHANGED <<objects, fqdn_objects, range_objects,
                                      range_object_groups, fqdn_object_groups,
                                      group_of_groups, remote_objs>>
                  [] OTHER ->
                       /\ broken_objects' = (broken_objects \o mx.log) \o
                              <<Record("address-group ipv4", mx.name,
                                       "contains no valid entries", <<>>)>>
                       /\ NextElement
                       /\ UNCHANGED <<addr_tabs, remote>>
    /\ UNCHANGED <<svc_tabs, rulesets, rule_vars, env>>

\* Pass 4: address-group ipv6 (FQDN groups, and mixed groups, which are split)
PassGroup6 ==
    /\ pc = "group6" /\ loaded
    /\ IF idx > Len(work)
       THEN EndPass /\ UNCHANGED <<addr_tabs, remote, broken_objects>>
       ELSE LET mx == build_group_ipv6(work[idx])
            IN  CASE mx.ret = "none" ->
                       /\ broken_objects' = broken_objects \o mx.log
                       /\ NextElement
                       /\ UNCHANGED <<addr_tabs, remote>>
                  [] mx.ret = "ok" /\ Len(mx.objectFQDNs) > 0 /\ Len(mx.objectIds) > 0 ->
                       LET fq == mx.name \o FQDN_SPLIT
                           v4 == mx.name \o IPV4_SPLIT
                           mk_fq == fq \notin DOMAIN fqdn_object_groups
                           mk_v4 == v4 \notin DOMAIN object_groups
                           grps1 == IF mk_fq
                                    THEN Append(remote_grps, Group(fq, mx.objectFQDNs))
                                    ELSE remote_grps
                           grps2 == IF mk_v4
                                    THEN Append(grps1, Group(v4, mx.objectIds))
                                    ELSE grps1
                       IN  /\ remote_grps' = grps2
                           /\ fqdn_object_groups' =
                                 IF mk_fq THEN Put(fqdn_object_groups, fq, GrpId(Len(grps1)))
                                 ELSE fqdn_object_groups
                           /\ object_groups' =
                                 IF mk_v4 THEN Put(object_groups, v4, GrpId(Len(grps2)))
                                 ELSE object_groups
                           /\ broken_objects' = broken_objects \o mx.log
                           /\ NextElement
                           /\ UNCHANGED <<objects, fqdn_objects, range_objects,
                                          range_object_groups, group_of_groups,
                                          remote_objs>>
                  [] mx.ret = "ok" /\ Len(mx.objectFQDNs) > 0 /\ Len(mx.objectIds) = 0 ->
                       /\ remote_grps' = Append(remote_grps,
                              Group(mx.name, mx.objectIds \o mx.objectFQDNs))
                       /\ fqdn_object_groups' = Put(fqdn_object_groups, mx.name, NextGrpId)
                       /\ broken_objects' = broken_objects \o mx.log
                       /\ NextElement
                       /\ UNCHANGED <<objects, fqdn_objects, range_objects, object_groups,
                                      range_object_groups, group_of_groups, remote_objs>>
                  [] OTHER ->
                       \* no FQDN member: nothing is created and nothing is written
                       /\ broken_objects' = broken_objects \o mx.log
                       /\ NextElement
                       /\ UNCHANGED <<addr_tabs, remote>>
    /\ UNCHANGED <<svc_tabs, rulesets, rule_vars, env>>

\* Pass 5: address-group ipv4 with a nested address-group ipv4
PassNested ==
    /\ pc = "nested" /\ loaded
    /\ IF idx > Len(work)
       THEN EndPass /\ UNCHANGED <<addr_tabs, broken_objects>>
       ELSE LET mx == build_group(work[idx])
            IN  /\ broken_objects' = broken_objects \o mx.log
                /\ NextElement
                /\ IF mx.ret = "ok" /\ Len(mx.group_of_groups) > 0
                        /\ mx.name \notin DOMAIN group_of_groups
                   THEN /\ group_of_groups' =
                              Put(group_of_groups, mx.name,
                                  <<mx.objectIds, mx.group_of_groups>>)
                        /\ UNCHANGED <<objects, fqdn_objects, range_objects,
                                       object_groups, range_object_groups,
                                       fqdn_object_groups>>
                   ELSE UNCHANGED addr_tabs
    /\ UNCHANGED <<svc_tabs, remote, rulesets, rule_vars, env>>

\* Pass 6: service-object
PassService ==
    /\ pc = "service" /\ loaded
    /\ IF idx > Len(work)
       THEN EndPass /\ UNCHANGED <<svc_tabs, broken_objects>>
       ELSE LET mx == build_service(work[idx])
            IN  CASE mx.ret = "crash" ->
                       Abort /\ UNCHANGED <<svc_tabs, broken_objects>>
                  [] mx.ret = "none" ->
                       /\ broken_objects' = broken_objects \o mx.log
                       /\ NextElement
                       /\ UNCHANGED svc_tabs
                  [] OTHER ->
                       /\ service_objects' =
                              Put(service_objects, mx.name, <<mx.protocol, mx.port>>)
                       /\ NextElement
                       /\ UNCHANGED <<service_object_groups, service_group_of_groups,
                                      broken_objects>>
    /\ UNCHANGED <<addr_tabs, remote, rulesets, rule_vars, env>>

\* Pass 7: service-group without a nested service-group
PassServiceGroup ==
    /\ pc = "sgroup" /\ loaded
    /\ IF idx > Len(work)
       THEN EndPass /\ UNCHANGED <<svc_tabs, broken_objects>>
       ELSE LET mx == build_service_group(work[idx])
            IN  /\ broken_objects' = broken_objects \o mx.log
                /\ NextElement
                /\ IF mx.ret = "ok"
                   THEN /\ service_object_groups' =
                              Put(service_object_groups, mx.name, mx.service_objects)
                        /\ UNCHANGED <<service_objects, service_group_of_groups>>
                   ELSE UNCHANGED svc_tabs
    /\ UNCHANGED <<addr_tabs, remote, rulesets, rule_vars, env>>

\* Pass 8: service-group with a nested service-group
PassServiceNested ==
    /\ pc = "snested" /\ loaded
    /\ IF idx > Len(work)
       THEN EndPass /\ UNCHANGED <<svc_tabs, broken_objects>>
       ELSE LET mx == build_service_group(work[idx])
            IN  /\ broken_objects' = broken_objects \o mx.log
                /\ NextElement
                /\ IF mx.ret = "ok" /\ Len(mx.group_of_groups) > 0
                        /\ mx.name \notin DOMAIN service_group_of_groups
                   THEN /\ service_group_of_groups' =
                              Put(service_group_of_groups, mx.name,
                                  mx.service_objects \o mx.group_of_groups)
                        /\ UNCHANGED <<service_objects, service_object_groups>>
                   ELSE UNCHANGED svc_tabs
    /\ UNCHANGED <<addr_tabs, remote, rulesets, rule_vars, env>>

\* ------------------------------------------------------------ rule parsing
\* A resolved reference: any, OBJ[id], GRP[id] (and VLAN(v).* in a VLAN rule).
ANY      == [k |-> "any", id |-> 0, v |-> ""]
OBJ(id)  == [k |-> "OBJ", id |-> id, v |-> ""]
GRP(id)  == [k |-> "GRP", id |-> id, v |-> ""]
VLAN(v)  == [k |-> "VLAN", id |-> 0, v |-> v]

\* The value of acl['src'] / acl['dst']: one reference or a list of them.
Scalar(tok) == [list |-> FALSE, toks |-> <<tok>>]
List(toks)  == [list |-> TRUE, toks |-> toks]

Map(f(_), s) == [i \in 1 .. Len(s) |-> f(s[i])]

\* acl = {}: keys are the keys set so far.
EmptyAcl == [keys |-> {}, src_zone |-> "", dst_zone |-> "", action |-> "",
             comment |-> "", src |-> Scalar(ANY), src_port |-> "",
             dst |-> Scalar(ANY), services |-> <<>>]

\* What a parser returns: 'Success' or an error message, with the acl as it
\* left it; "crash" when an exception leaves the script.
Result(res, acl) == [res |-> res, acl |-> acl]

SetSrc(acl, v) == [acl EXCEPT !.keys = @ \cup {"src"}, !.src = v]
SetDst(acl, v) == [acl EXCEPT !.keys = @ \cup {"dst"}, !.dst = v]

\* [OBJ[..] for obj_list[0]] + [GRP[..] for obj_list[1]]
ObjsThenGrps(obj_list) == List(Map(OBJ, obj_list[1]) \o Map(GRP, obj_list[2]))

source_parser(src_address, acl) ==
    IF Contains(src_address, "any") THEN Result("Success", SetSrc(acl, Scalar(ANY)))
    ELSE IF Contains(src_address, "name")
    THEN LET src_obj == sanitize_fqdn(Strip(Remove(src_address, "name")))
         IN  IF src_obj \in DOMAIN objects
             THEN Result("Success", SetSrc(acl, Scalar(OBJ(objects[src_obj]))))
             ELSE IF src_obj \o RANGE_SUFFIX \in DOMAIN range_objects
             THEN Result("Success",
                         SetSrc(acl, Scalar(GRP(range_objects[src_obj \o RANGE_SUFFIX]))))
             ELSE IF src_obj \in DOMAIN fqdn_objects
             THEN Result("FQDN Source Address not supported in Meraki", acl)
             ELSE Result("No valid Source Object exists", acl)
    ELSE IF Contains(src_address, "group")
    THEN LET g == sanitize_fqdn(Strip(Remove(src_address, "group")))
         IN  IF g \in DOMAIN object_groups
             THEN Result("Success", SetSrc(acl, Scalar(GRP(object_groups[g]))))
             ELSE IF g \o RANGE_SUFFIX \in DOMAIN range_object_groups
             THEN Result("Success",
                         SetSrc(acl, ObjsThenGrps(range_object_groups[g \o RANGE_SUFFIX])))
             ELSE IF g \o FQDN_SPLIT \in DOMAIN fqdn_object_groups
             THEN IF g \o IPV4_SPLIT \in DOMAIN object_groups
                  THEN Result("Success",
                              SetSrc(acl, List(<<GRP(fqdn_object_groups[g \o FQDN_SPLIT]),
                                                 GRP(object_groups[g \o IPV4_SPLIT])>>)))
                  ELSE Result("crash", acl)                       \* KeyError
             ELSE IF g \in DOMAIN group_of_groups
             THEN Result("Success", SetSrc(acl, ObjsThenGrps(group_of_groups[g])))
             ELSE IF g \in DOMAIN fqdn_object_groups
             THEN Result("FQDN Source Address Group not supported in Meraki", acl)
             ELSE Result("No valid Source Object Group exists (group contains no valid objects)", acl)
    ELSE Result("Success", acl)

destination_parser(dst_address, acl) ==
    IF Contains(dst_address, "any") THEN Result("Success", SetDst(acl, Scalar(ANY)))
    ELSE IF Contains(dst_address, "name")
    THEN LET dst_obj == sanitize_fqdn(Strip(Remove(dst_address, "name")))
         IN  IF dst_obj \in DOMAIN objects
             THEN Result("Success", SetDst(acl, Scalar(OBJ(objects[dst_obj]))))
             ELSE IF dst_obj \in DOMAIN fqdn_objects
             THEN Result("Success", SetDst(acl, Scalar(OBJ(fqdn_objects[dst_obj]))))
             ELSE IF dst_obj \o RANGE_SUFFIX \in DOMAIN range_objects
             THEN Result("Success",
                         SetDst(acl, Scalar(GRP(range_objects[dst_obj \o RANGE_SUFFIX]))))
             ELSE Result("No valid Destination Object exists", acl)
    ELSE IF Contains(dst_address, "group")
    THEN LET g == sanitize_fqdn(Strip(Remove(dst_address, "group")))
         IN  IF g \in DOMAIN object_groups
             THEN Result("Success", SetDst(acl, Scalar(GRP(object_groups[g]))))
             ELSE IF g \in DOMAIN fqdn_object_groups
             THEN Result("Success", SetDst(acl, Scalar(GRP(fqdn_object_groups[g]))))
             ELSE IF g \o RANGE_SUFFIX \in DOMAIN range_objects
             \* dst_obj_group[dst_obj_group + '__range__']: a str indexed by a str
             THEN Result("crash", acl)                            \* TypeError
             ELSE IF g \o FQDN_SPLIT \in DOMAIN fqdn_object_groups
             THEN IF g \o IPV4_SPLIT \in DOMAIN object_groups
                  THEN Result("Success",
                              SetDst(acl, List(<<GRP(fqdn_object_groups[g \o FQDN_SPLIT]),
                                                 GRP(object_groups[g \o IPV4_SPLIT])>>)))
                  ELSE Result("crash", acl)                       \* KeyError
             ELSE IF g \in DOMAIN group_of_groups
             THEN Result("Success", SetDst(acl, ObjsThenGrps(group_of_groups[g])))
             ELSE Result("No valid Destination Object Group exists (group contains no valid objects)", acl)
    ELSE Result("Success", acl)

\* ---------------------------------------------------- combine_like_services
\* A service is <<protocol, port expression>>.
RECURSIVE Distinct(_, _, _)
\* The single ports of services of a protocol, each once, in order.
Distinct(service_objs, proto, seen) ==
    IF service_objs = <<>> THEN seen
    ELSE LET s == Head(service_objs)
         IN  Distinct(Tail(service_objs), proto,
                 IF ~Contains(s[2], "-") /\ s[1] = proto /\ s[2] \notin Range(seen)
                 THEN Append(seen, s[2]) ELSE seen)

\* ','.join(list)
RECURSIVE Join(_)
Join(texts) == IF Len(texts) = 1 THEN texts[1]
               ELSE texts[1] \o <<",">> \o Join(Tail(texts))

RECURSIVE RangesOf(_)
RangesOf(service_objs) ==
    IF service_objs = <<>> THEN <<>>
    ELSE (IF Contains(Head(service_objs)[2], "-") THEN <<Head(service_objs)>> ELSE <<>>)
         \o RangesOf(Tail(service_objs))

\* icmp_list: the protocol of the last ICMP / ICMPV6 service without a range
RECURSIVE LastIcmp(_, _)
LastIcmp(service_objs, last) ==
    IF service_objs = <<>> THEN last
    ELSE LET s == Head(service_objs)
         IN  LastIcmp(Tail(service_objs),
                 IF ~Contains(s[2], "-") /\ s[1] \in {"ICMP", "ICMPV6"}
                 THEN <<<<s[1], <<"N/A">>>>>> ELSE last)

combine_like_services(service_objs) ==
    LET tcp_list == Distinct(service_objs, "TCP", <<>>)
        udp_list == Distinct(service_objs, "UDP", <<>>)
    IN  RangesOf(service_objs)
        \o (IF Len(tcp_list) > 0 THEN << <<"TCP", Join(tcp_list)>> >> ELSE <<>>)
        \o (IF Len(udp_list) > 0 THEN << <<"UDP", Join(udp_list)>> >> ELSE <<>>)
        \o LastIcmp(service_objs, <<>>)

AnyService == <<"any", <<"any">>>>

service_parser(service, acl) ==
    LET first == IF Contains(service, "any") THEN <<AnyService>> ELSE <<>>
        set(services) == [acl EXCEPT !.keys = @ \cup {"services"}, !.services = services]
    IN  IF Contains(service, "name")
        THEN LET service_obj == sanitize_quote(Strip(Remove(service, "name")))
             IN  IF service_obj \in DOMAIN service_objects
                 THEN Result("Success", set(Append(first, service_objects[service_obj])))
                 ELSE Result("No valid Service Object found in local list (unsupported protocol, no port numbers, etc.)", set(first))
        ELSE IF Contains(service, "group")
        THEN LET g == sanitize_quote(Strip(Remove(service, "group")))
             IN  IF g \in DOMAIN service_object_groups
                 THEN Result("Success",
                             set(first \o combine_like_services(service_object_groups[g])))
                 ELSE IF g \in DOMAIN service_group_of_groups
                 THEN Result("Success",
                             set(first \o combine_like_services(service_group_of_groups[g])))
                 ELSE Result("No valid Service Object Group found in local list (no valid service objects present)",
                             set(first))
        ELSE Result("Success", set(first))

\* ----------------------------------------------------------- ACL_RULE_REGEX
\* The characters of [\w|\-|\.]
WordLike(piece) == piece \notin {QUOTE, BLANK, ":", "*"}

RECURSIVE WordPrefix(_)
WordPrefix(text) ==
    IF text = <<>> \/ ~WordLike(Head(text)) THEN <<>>
    ELSE <<Head(text)>> \o WordPrefix(Tail(text))

\* What (name "[^"]+"|name [\w|\-|\.]+|group "[^"]+"|group [\w|\-|\.]+)
\* captures of a reference: nothing of `any`; a quoted identifier up to its
\* closing quote; of an identifier without quotes the characters of the class.
\* whole says that the reference ends where the capture ends.
RefCapture(text) ==
    IF Len(text) < 3 \/ text[1] \notin {"name", "group"} \/ text[2] # BLANK
    THEN [ok |-> FALSE, cap |-> <<>>, whole |-> FALSE]
    ELSE LET rest == SubSeq(text, 3, Len(text))
             inner == UpToQuote(Tail(rest))
         IN  IF rest[1] = QUOTE
             THEN IF Len(inner) > 0 /\ Len(inner) + 2 <= Len(rest)
                  THEN [ok |-> TRUE, cap |-> SubSeq(text, 1, Len(inner) + 4),
                        whole |-> Len(inner) + 2 = Len(rest)]
                  ELSE [ok |-> FALSE, cap |-> <<>>, whole |-> FALSE]
             ELSE LET w == WordPrefix(rest)
                  IN  IF Len(w) > 0
                      THEN [ok |-> TRUE, cap |-> SubSeq(text, 1, Len(w) + 2),
                            whole |-> Len(w) = Len(rest)]
                      ELSE [ok |-> FALSE, cap |-> <<>>, whole |-> FALSE]

\* The groups of the regex on a rule header: hdr is the header after
\* `access-rule ipv4`, one element per field.  The optional groups match in
\* the order action, source address, service, destination address, each
\* right where the one before it ended.
header_groups(hdr) ==
    IF Len(hdr) < 2 \/ hdr[1].kw # "from" \/ hdr[2].kw # "to"
    THEN [match |-> FALSE, src_zone |-> "", dst_zone |-> "", action |-> "",
          source |-> <<>>, service |-> <<>>, destination |-> <<>>]
    ELSE LET at(p, kw) == p <= Len(hdr) /\ hdr[p].kw = kw
             stop == Len(hdr) + 1
             has_a == at(3, "action")
             p1 == IF has_a THEN 4 ELSE 3
             s  == IF at(p1, "source address") THEN RefCapture(hdr[p1].text)
                   ELSE [ok |-> FALSE, cap |-> <<>>, whole |-> FALSE]
             p2 == IF s.ok THEN (IF s.whole THEN p1 + 1 ELSE stop) ELSE p1
             v  == IF at(p2, "service") THEN RefCapture(hdr[p2].text)
                   ELSE [ok |-> FALSE, cap |-> <<>>, whole |-> FALSE]
             p3 == IF v.ok THEN (IF v.whole THEN p2 + 1 ELSE stop) ELSE p2
             d  == IF at(p3, "destination address") THEN RefCapture(hdr[p3].text)
                   ELSE [ok |-> FALSE, cap |-> <<>>, whole |-> FALSE]
         IN  [match |-> TRUE, src_zone |-> hdr[1].s, dst_zone |-> hdr[2].s,
              action |-> IF has_a THEN hdr[3].s ELSE "",
              source |-> s.cap, service |-> v.cap, destination |-> d.cap]

SetKey(acl, key, value) ==
    CASE key = "src_zone" -> [acl EXCEPT !.keys = @ \cup {key}, !.src_zone = value]
      [] key = "dst_zone" -> [acl EXCEPT !.keys = @ \cup {key}, !.dst_zone = value]
      [] key = "action"   -> [acl EXCEPT !.keys = @ \cup {key}, !.action = value]
      [] key = "comment"  -> [acl EXCEPT !.keys = @ \cup {key}, !.comment = value]
      [] key = "src_port" -> [acl EXCEPT !.keys = @ \cup {key}, !.src_port = value]

\* regex_match(line, acl)
regex_match(hdr, acl) ==
    LET service(m, r5) ==
            IF r5.res # "Success" THEN r5
            ELSE IF m.service # <<>> THEN service_parser(m.service, r5.acl)
            ELSE Result("Success", r5.acl)
        destination(m, r4) ==
            IF r4.res # "Success" THEN r4
            ELSE service(m, IF m.destination # <<>>
                            THEN destination_parser(m.destination, r4.acl)
                            ELSE Result("Success", r4.acl))
        source(m, a3) ==
            destination(m, IF m.source # <<>> THEN source_parser(m.source, a3)
                           ELSE Result("Success", a3))
        action(m, a2) ==
            source(m, IF m.action # "" THEN SetKey(a2, "action", m.action) ELSE a2)
        groups(m) ==
            IF ~m.match THEN Result("Success", acl)
            ELSE action(m, SetKey(SetKey(acl, "src_zone", m.src_zone),
                                  "dst_zone", m.dst_zone))
    IN  groups(header_groups(hdr))

\* parse_line: one child line of the rule.  The steps on a line follow each
\* other; a parser that fails ends the rule.
child_line(content, acl) ==
    LET service(r7) ==
            IF r7.res # "Success" THEN r7
            ELSE IF "services" \notin r7.acl.keys /\ content.kw = "service"
            THEN service_parser(Strip(content.text), r7.acl)
            ELSE Result("Success", r7.acl)
        destination(a6) ==
            service(IF "dst" \notin a6.keys /\ content.kw = "destination address"
                    THEN destination_parser(Strip(content.text), a6)
                    ELSE Result("Success", a6))
        source_port(r5) ==
            IF r5.res # "Success" THEN r5
            ELSE destination(IF content.kw = "source port" /\ content.s = "any"
                             THEN SetKey(r5.acl, "src_port", "any") ELSE r5.acl)
        source(a4) ==
            source_port(IF "src" \notin a4.keys /\ content.kw = "source address"
                        THEN source_parser(Strip(content.text), a4)
                        ELSE Result("Success", a4))
        comment(a3) ==
            source(IF content.kw = "comment"
                   THEN SetKey(a3, "comment", content.s) ELSE a3)
        action(a2) ==
            comment(IF "action" \notin a2.keys /\ content.kw = "action"
                    THEN SetKey(a2, "action", content.s) ELSE a2)
        dst_zone(a1) ==
            action(IF "dst_zone" \notin a1.keys /\ content.kw = "to"
                   THEN SetKey(a1, "dst_zone", content.s) ELSE a1)
        src_zone(a0) ==
            dst_zone(IF "src_zone" \notin a0.keys /\ content.kw = "from"
                     THEN SetKey(a0, "src_zone", content.s) ELSE a0)
    IN  IF content.kw = "no enable"
        THEN Result("Inactive rules not allowed in Meraki", acl)
        ELSE src_zone(acl)

RECURSIVE children_loop(_, _)
children_loop(children, acl) ==
    LET next(r) == IF r.res # "Success" THEN r
                   ELSE children_loop(Tail(children), r.acl)
    IN  IF children = <<>> THEN Result("Success", acl)
        ELSE next(child_line(Head(children), acl))

AllKeys == {"action", "src", "dst", "services", "src_zone", "dst_zone"}

\* Case of no children elements, ignore
no_children_never(line) == FALSE

no_children(line) == Len(line.children) = 0

\* parse_line(line): res is "acl" when the rule is returned as a dict,
\* "any" when it is an any/any/any rule, otherwise the message returned.
parse_line(line) ==
    LET classify(acl) ==
            IF AllKeys \subseteq acl.keys
            THEN IF acl.src = Scalar(ANY) /\ acl.dst = Scalar(ANY)
                 THEN IF acl.services = <<>> THEN Result("crash", acl)   \* IndexError
                      ELSE IF acl.services[1] = AnyService
                      THEN Result("any", acl)
                      ELSE Result("acl", acl)
                 ELSE Result("acl", acl)
            ELSE Result("Invalid line", acl)
        children(c) == IF c.res # "Success" THEN c ELSE classify(c.acl)
        header(r) ==
            IF r.res # "Success" THEN r
            ELSE IF no_children(line)
            THEN Result("No valid line entries in rule, skipping...", r.acl)
            ELSE children(children_loop(line.children, r.acl))
    IN  header(regex_match(line.hdr, EmptyAcl))

\* default_zone_map[src] is a dict in the order of its insertions: a sequence
\* of <<dst_zone, action>>.
HasCell(row, dst) == \E i \in 1 .. Len(row) : row[i][1] = dst
SetCell(row, dst, action) ==
    IF HasCell(row, dst)
    THEN [i \in 1 .. Len(row) |-> IF row[i][1] = dst THEN <<dst, action>> ELSE row[i]]
    ELSE Append(row, <<dst, action>>)

\* Add inter-zone behavior to default map
zone_guard_src_only(acl) == acl.src_zone \in DOMAIN default_zone_map

zone_guard(acl) ==
    acl.src_zone \in DOMAIN default_zone_map /\ acl.dst_zone \in DOMAIN default_zone_map

zone_action(acl) == IF acl.action = "allow" THEN "allow" ELSE "deny"

\* parse_rules: the loop over the access-rule ipv4 stanzas
ParseRule ==
    LET rule(r) ==
            CASE r.res = "crash" -> Abort /\ UNCHANGED rule_vars
              [] r.res = "any" ->
                   /\ default_zone_map' =
                        IF zone_guard(r.acl)
                        THEN [default_zone_map EXCEPT ![r.acl.src_zone] =
                                 SetCell(@, r.acl.dst_zone, zone_action(r.acl))]
                        ELSE default_zone_map
                   /\ NextElement
                   /\ UNCHANGED <<acl_list, broken_rules>>
              [] r.res = "acl" ->
                   /\ acl_list' = Append(acl_list, r.acl)
                   /\ NextElement
                   /\ UNCHANGED <<broken_rules, default_zone_map>>
              [] OTHER ->
                   /\ broken_rules' = Append(broken_rules,
                          Record(work[idx].kw, work[idx].text, r.res, work[idx].hdr))
                   /\ NextElement
                   /\ UNCHANGED <<acl_list, default_zone_map>>
    IN  /\ pc = "rules" /\ loaded
        /\ IF idx > Len(work)
           THEN EndPass /\ UNCHANGED rule_vars
           ELSE rule(parse_line(work[idx]))
        /\ UNCHANGED <<addr_tabs, svc_tabs, remote, rulesets, env, broken_objects>>
\* ------------------------------------------------------------------ config
\* ZONES: zone name -> VLAN number ('' when the zone is not a local VLAN),
\* in the order of the dict.
ZONE_NAMES == <<"LAN", "DMZ", "WAN">>
ZONES == [z \in Range(ZONE_NAMES) |->
             CASE z = "LAN" -> "10" [] z = "DMZ" -> "20" [] OTHER -> ""]
INBOUND   == {"WAN"}
SITE2SITE == {"VPN", "SSLVPN"}

\* --------------------------------------------------------- create_mx_rules
\* A firewall rule as handed to the Dashboard.  srcCidr is one reference;
\* destCidr is the comma-separated list of references (one, but for a VLAN
\* rule); destPort is a port expression.
FirewallRule(comment, policy, protocol, srcPort, srcCidr, destCidr, destPort) ==
    [comment |-> comment, policy |-> policy, protocol |-> protocol,
     srcPort |-> srcPort, srcCidr |-> srcCidr, destCidr |-> destCidr,
     destPort |-> destPort]

\* set protocol (handle icmp cases)
protocol_of(p) ==
    CASE p = "ICMP" -> "icmp" [] p = "ICMPV6" -> "icmp6" [] OTHER -> p

\* One result of itertools.product(src, dst, services), with the zones the
\* mapping needs.
rule_of(acl, s, d, v) ==
    [rule |-> FirewallRule(IF "comment" \in acl.keys THEN acl.comment ELSE "",
                           acl.action,
                           protocol_of(v[1]),
                           IF "src_port" \in acl.keys THEN acl.src_port ELSE "any",
                           s, <<d>>,
                           IF v[2] # <<"N/A">> THEN v[2] ELSE <<"any">>),
     src_zone |-> acl.src_zone, dst_zone |-> acl.dst_zone]

\* The rules of one acl, were the first service alone combined.
combos_first_service(acl) ==
    LET S == acl.src.toks
        D == acl.dst.toks
    IN  [k \in 1 .. Len(S) * Len(D) |->
            rule_of(acl, S[((k - 1) \div Len(D)) + 1], D[((k - 1) % Len(D)) + 1],
                    acl.services[1])]

\* The rules of one acl: every combination, the source varying slowest.
combos(acl) ==
    LET S == acl.src.toks
        D == acl.dst.toks
        V == acl.services
    IN  [k \in 1 .. Len(S) * Len(D) * Len(V) |->
            rule_of(acl, S[((k - 1) \div (Len(D) * Len(V))) + 1],
                         D[(((k - 1) \div Len(V)) % Len(D)) + 1],
                         V[((k - 1) % Len(V)) + 1])]

RECURSIVE firewall_rules(_)
firewall_rules(acls) ==
    IF acls = <<>> THEN <<>> ELSE combos(Head(acls)) \o firewall_rules(Tail(acls))

\* ------------------------------------------------------------ rule_mapping
\* The mapping, were the site-to-site zones looked at first.
ruleset_of_site2site_first(r) ==
    IF r.src_zone \in SITE2SITE \/ r.dst_zone \in SITE2SITE THEN "site2site"
    ELSE IF r.src_zone \in INBOUND THEN "inbound"
    ELSE "outbound"

ruleset_of(r) ==
    IF r.src_zone \in INBOUND THEN "inbound"
    ELSE IF r.src_zone \in SITE2SITE \/ r.dst_zone \in SITE2SITE THEN "site2site"
    ELSE "outbound"

RECURSIVE rules_for(_, _)
rules_for(rules, set) ==
    IF rules = <<>> THEN <<>>
    ELSE (IF ruleset_of(Head(rules)) = set THEN <<Head(rules).rule>> ELSE <<>>)
         \o rules_for(Tail(rules), set)

RECURSIVE bare(_)
bare(rules) == IF rules = <<>> THEN <<>> ELSE <<Head(rules).rule>> \o bare(Tail(rules))

CreateMxRules ==
    /\ pc = "mx_rules"
    /\ LET rules == firewall_rules(acl_list)
       IN  IF MAPPING_FLAG
           THEN /\ vpn_rules' = rules_for(rules, "site2site")
                /\ l3_rules' = rules_for(rules, "outbound")
                /\ inbound_rules' = rules_for(rules, "inbound")
           ELSE /\ l3_rules' = bare(rules)
                /\ UNCHANGED <<vpn_rules, inbound_rules>>
    /\ pc' = NextPc(pc)
    /\ UNCHANGED <<loaded, work, idx, pending, addr_tabs, svc_tabs, remote, written,
                   rule_vars, env, broken_objects>>

\* ------------------------------------------------------- create_vlan_rules
\* The VLANs, were every cell of a local VLAN taken for a deny.
deny_vlans_whatever_default(row) ==
    [i \in 1 .. Len(SelectSeq(row, LAMBDA c : ZONES[c[1]] # "")) |->
        VLAN(ZONES[SelectSeq(row, LAMBDA c : ZONES[c[1]] # "")[i][1]])]

\* The VLANs a deny rule of src_zone names: the cells of its row that are a
\* local VLAN and not an implicit allow.
RECURSIVE deny_vlans(_)
deny_vlans(row) ==
    IF row = <<>> THEN <<>>
    ELSE (IF ZONES[Head(row)[1]] = "" \/ Head(row)[2] = "allow" THEN <<>>
          ELSE <<VLAN(ZONES[Head(row)[1]])>>)
         \o deny_vlans(Tail(row))

RECURSIVE default_rules(_)
default_rules(zones) ==
    IF zones = <<>> THEN <<>>
    ELSE LET src_zone == Head(zones)
             destCidr == deny_vlans(default_zone_map[src_zone])
         IN  (IF ZONES[src_zone] # "" /\ Len(destCidr) > 0
              THEN <<FirewallRule("Any Any Inter-zone rule", "deny", "any", "any",
                                  VLAN(ZONES[src_zone]), destCidr, <<"any">>)>>
              ELSE <<>>)
             \o default_rules(Tail(zones))

\* Step 5: the question, and create_vlan_rules when the answer is yes
CreateVlanRules ==
    /\ pc = "vlan_rules"
    /\ l3_rules' = IF VLAN_ANSWER THEN l3_rules \o default_rules(ZONE_NAMES)
                   ELSE l3_rules
    /\ pc' = NextPc(pc)
    /\ UNCHANGED <<loaded, work, idx, pending, addr_tabs, svc_tabs, remote,
                   inbound_rules, vpn_rules, written, rule_vars, env, broken_objects>>

\* ------------------------------------------------------ default_map_to_csv
ROW_HEADER == "Source Zone \\ Destination Zone"

DefaultMapToCsv ==
    /\ pc = "csv"
    /\ default_zone_map' =
          [z \in DOMAIN default_zone_map |-> SetCell(default_zone_map[z], ROW_HEADER, z)]
    /\ pc' = NextPc(pc)
    /\ UNCHANGED <<loaded, work, idx, pending, addr_tabs, svc_tabs, remote, rulesets,
                   acl_list, broken_rules, env, broken_objects>>

\* ------------------------------------------------------------------ bounds
\* The number of stanzas of a show-run file (of its access rules, when the
\* objects of the file are fixed).
MaxStanzas == 2
MaxRules == 1
\* The number of access rules of a file of rules between zones.
MaxZoneRules == 3

\* ----------------------------------------------------- show-run files read
AddressObject(name, children) == Stanza("address-object ipv4", name, children)
FqdnAddress(name, children)   == Stanza("address-object fqdn", name, children)
AddressGroup(name, children)  == Stanza("address-group ipv4", name, children)
AddressGroup6(name, children) == Stanza("address-group ipv6", name, children)
ServiceGroup(name, children)  == Stanza("service-group", name, children)

AnyRef       == <<"any">>
NameRef(n)   == <<"name", BLANK>> \o n
GroupRef(n)  == <<"group", BLANK>> \o n

\* The fields of a rule, on its header line (in the order of the show-run)
\* and as child lines.
Fields(z1, z2, act, s, v, d) ==
    <<Word("from", z1), Word("to", z2), Word("action", act),
      Line("source address", s), Line("service", v), Line("destination address", d)>>

Rule(z1, z2, act, s, v, d) ==
    RuleStanza(Fields(z1, z2, act, s, v, d), Fields(z1, z2, act, s, v, d))

\* A rule written on its header line alone.
HeaderRule(z1, z2, act, s, v, d) == RuleStanza(Fields(z1, z2, act, s, v, d), <<>>)

h1 == <<"h1">>
f1 == <<"f1">>
r1 == <<"r1">>
g1 == <<"g1">>
zz == <<"zz">>
tcp80 == <<"tcp80">>
EXIT == Line("exit", <<>>)

\* Files of objects: every case of the object passes.
ObjectPool(cat) ==
    CASE cat = "ipv4" ->
           { AddressObject(h1, <<Host(1)>>),
             AddressObject(<<QUOTE, "a", ".", "b", QUOTE>>, <<Host(2)>>),
             AddressObject(<<"a", "_", "b">>, <<Network(4, "255.255.255.252")>>),
             AddressObject(r1, <<IpRange(1, 4)>>),
             AddressObject(<<"e1">>, <<Word("zone", "LAN")>>),
             AddressObject(<<"h3">>, <<Host(3), EXIT, Line("name", <<"h4">>),
                                       Host(4), EXIT>>),
             AddressObject(<<"bad">>, <<IpRange(4, 1)>>),
             AddressObject(<<"nm">>, <<Network(4, "255.255.255.253")>>),
             AddressObject(<<"nc">>, <<>>) }
      [] cat = "fqdn" ->
           { FqdnAddress(f1, <<Word("domain", "example.com")>>),
             FqdnAddress(<<"w", "*">>, <<Word("domain", "*.example.com")>>),
             FqdnAddress(<<"w", ".">>, <<Word("zone", "WAN")>>) }
      [] cat = "group4" ->
           { AddressGroup(g1, <<Line("address-object ipv4", h1)>>),
             AddressGroup(<<"g2">>, <<Line("address-object ipv4", zz),
                                      Line("address-object ipv4", h1)>>),
             AddressGroup(<<"g3">>, <<Line("address-object ipv4", zz)>>),
             AddressGroup(<<"gr">>, <<Line("address-object ipv4", r1),
                                      Line("address-object ipv4", h1)>>),
             AddressGroup(<<"n1">>, <<Line("address-object ipv4", h1),
                                      Line("address-group ipv4", g1)>>) }
      [] cat = "group6" ->
           { AddressGroup6(<<"mix">>, <<Line("address-object fqdn", f1),
                                        Line("address-object ipv4", h1)>>),
             AddressGroup6(<<"fg">>, <<Line("address-object fqdn", f1)>>),
             AddressGroup6(<<"v4">>, <<Line("address-object ipv4", h1)>>),
             AddressGroup6(<<"fz">>, <<Line("address-object fqdn", zz)>>) }
      [] cat = "service" ->
           { ServiceStanza(tcp80, <<"TCP", "80", "80">>),
             ServiceStanza(tcp80, <<"UDP", "53", "60">>),
             ServiceStanza(<<QUOTE, "gre", QUOTE>>, <<"GRE">>),
             ServiceStanza(<<"short">>, <<"TCP", "80">>),
             ServiceStanza(<<"esp">>, <<"ESP">>) }
      [] cat = "sgroup" ->
           { ServiceGroup(<<"sg">>, <<Line("service-object", tcp80)>>),
             ServiceGroup(<<"sz">>, <<Line("service-object", zz)>>),
             ServiceGroup(<<"sn">>, <<Line("service-object", tcp80),
                                      Line("service-group", <<"sg">>)>>) }
      [] cat = "rules" ->
           { Rule("LAN", "WAN", "allow", GroupRef(<<"g2">>), AnyRef, AnyRef),
             Rule("LAN", "DMZ", "deny", AnyRef, AnyRef, AnyRef) }

\* The organization before the first run: empty, or holding objects.
Existing == << CidrObject(h1, [ip |-> 1, len |-> 32]),
               FqdnObject(f1, "example.com") >>

\* Files of rules over one fixed set of objects.
World ==
    [cat \in {"ipv4", "fqdn", "group4", "group6", "service", "sgroup"} |->
       CASE cat = "ipv4" -> << AddressObject(h1, <<Host(1)>>),
                               AddressObject(r1, <<IpRange(1, 4)>>) >>
         [] cat = "fqdn" -> << FqdnAddress(f1, <<Word("domain", "example.com")>>) >>
         [] cat = "group4" ->
              << AddressGroup(g1, <<Line("address-object ipv4", h1)>>),
                 AddressGroup(<<"gr">>, <<Line("address-object ipv4", r1),
                                          Line("address-object ipv4", h1)>>),
                 AddressGroup(<<"n1">>, <<Line("address-object ipv4", h1),
                                          Line("address-group ipv4", g1)>>) >>
         [] cat = "group6" ->
              << AddressGroup6(<<"mix">>, <<Line("address-object fqdn", f1),
                                            Line("address-object ipv4", h1)>>),
                 AddressGroup6(<<"fg">>, <<Line("address-object fqdn", f1)>>) >>
         [] cat = "service" ->
              << ServiceStanza(tcp80, <<"TCP", "80", "80">>),
                 ServiceStanza(<<"dns">>, <<"UDP", "53", "60">>),
                 ServiceStanza(<<"ping">>, <<"ICMP">>) >>
         [] cat = "sgroup" ->
              << ServiceGroup(<<"sg">>, <<Line("service-object", tcp80),
                                          Line("service-object", <<"ping">>)>>) >>]

SourceRefs == { NameRef(h1), NameRef(r1), NameRef(f1), NameRef(zz),
                NameRef(<<"comp", "any">>),
                GroupRef(g1), GroupRef(<<"gr">>), GroupRef(<<"mix">>),
                GroupRef(<<"fg">>), GroupRef(<<"n1">>), GroupRef(zz) }

DestinationRefs == { NameRef(h1), NameRef(f1), NameRef(r1), NameRef(zz),
                     GroupRef(g1), GroupRef(<<"fg">>), GroupRef(<<"mix">>),
                     GroupRef(<<"gr">>), GroupRef(r1), GroupRef(zz) }

ServiceRefs == { NameRef(tcp80), NameRef(<<"dns">>), NameRef(<<"ping">>),
                 NameRef(zz), GroupRef(<<"sg">>), GroupRef(zz) }

ZonePairs == { <<"LAN", "WAN">>, <<"LAN", "DMZ">>, <<"DMZ", "LAN">>,
               <<"VPN", "LAN">>, <<"LAN", "VPN">>, <<"WAN", "LAN">> }

\* The list with x put after its first i elements.
InsertAt(s, i, x) == SubSeq(s, 1, i) \o <<x>> \o SubSeq(s, i + 1, Len(s))

RulePool ==
    { Rule(z[1], z[2], a, AnyRef, AnyRef, AnyRef) :
          z \in ZonePairs, a \in {"allow", "deny", "discard"} }
    \cup { HeaderRule("LAN", "WAN", "allow", AnyRef, AnyRef, AnyRef) }
    \cup { Rule("LAN", "WAN", "allow", s, NameRef(tcp80), AnyRef) : s \in SourceRefs }
    \cup { Rule("LAN", "WAN", "allow", AnyRef, NameRef(tcp80), d) : d \in DestinationRefs }
    \cup { Rule("LAN", "WAN", "deny", NameRef(h1), v, AnyRef) : v \in ServiceRefs }
    \cup { Rule("VPN", "LAN", "discard", NameRef(h1), NameRef(tcp80), NameRef(f1)),
           Rule("WAN", "LAN", "allow", AnyRef, GroupRef(<<"sg">>), GroupRef(g1)),
           Rule("WAN", "VPN", "allow", NameRef(h1), NameRef(tcp80), AnyRef),
           [Rule("LAN", "WAN", "allow", NameRef(h1), AnyRef, AnyRef)
               EXCEPT !.children = <<Word("no enable", "")>> \o @],
           RuleStanza(Fields("LAN", "WAN", "allow", NameRef(h1), NameRef(tcp80),
                             NameRef(f1)),
                      Fields("DMZ", "LAN", "deny", GroupRef(g1), NameRef(<<"dns">>),
                             NameRef(h1))),
           RuleStanza(Fields("LAN", "WAN", "allow", NameRef(h1), NameRef(tcp80),
                             NameRef(f1)),
                      <<Word("from", "LAN"), EXIT>>
                      \o Fields("DMZ", "LAN", "deny", GroupRef(g1), NameRef(<<"dns">>),
                                NameRef(h1))),
           [Rule("LAN", "WAN", "allow", GroupRef(<<"n1">>), GroupRef(<<"sg">>),
                 GroupRef(<<"mix">>))
               EXCEPT !.children = @ \o <<Word("comment", "c1")>>],
           [Rule("LAN", "WAN", "allow", NameRef(h1), NameRef(tcp80), AnyRef)
               EXCEPT !.children = InsertAt(@, 4, Word("source port", "any"))],
           [Rule("LAN", "WAN", "allow", NameRef(h1), NameRef(tcp80), AnyRef)
               EXCEPT !.children = InsertAt(@, 4, Word("source port", "name sp"))] }

\* Files of inactive rules: `no enable` at every place among the child lines
\* of a rule on an object, of an any/any/any rule, of a rule whose destination
\* names a range object as a group, and of a rule with an `exit` line.

InactivePool ==
    LET bases == { Rule("LAN", "WAN", "allow", NameRef(h1), NameRef(tcp80), AnyRef),
                   Rule("LAN", "DMZ", "deny", AnyRef, AnyRef, AnyRef),
                   Rule("LAN", "WAN", "allow", AnyRef, NameRef(tcp80), GroupRef(r1)),
                   [Rule("LAN", "WAN", "allow", NameRef(h1), NameRef(tcp80), AnyRef)
                       EXCEPT !.children = InsertAt(@, 3, EXIT)] }
    IN  UNION { { [b EXCEPT !.children = InsertAt(@, i, Word("no enable", ""))] :
                     i \in 0 .. Len(b.children) } : b \in bases }

\* Files of any/any/any rules between the zones, and a rule on an object.
VlanPool ==
    { Rule("LAN", "LAN", "deny", AnyRef, AnyRef, AnyRef),
      Rule("LAN", "DMZ", "deny", AnyRef, AnyRef, AnyRef),
      Rule("LAN", "DMZ", "allow", AnyRef, AnyRef, AnyRef),
      Rule("LAN", "WAN", "deny", AnyRef, AnyRef, AnyRef),
      Rule("DMZ", "LAN", "deny", AnyRef, AnyRef, AnyRef),
      Rule("WAN", "LAN", "deny", AnyRef, AnyRef, AnyRef),
      Rule("LAN", "WAN", "allow", NameRef(h1), NameRef(tcp80), AnyRef) }

\* Files run twice: objects, a range, groups, and a rule on them.
RerunPool(cat) ==
    CASE cat = "ipv4" -> { AddressObject(h1, <<Host(1)>>),
                           AddressObject(r1, <<IpRange(1, 4)>>) }
      [] cat = "fqdn" -> { FqdnAddress(f1, <<Word("domain", "example.com")>>) }
      [] cat = "group4" ->
           { AddressGroup(g1, <<Line("address-object ipv4", h1)>>),
             AddressGroup(<<"g", "__range__", "s">>, <<Line("address-object ipv4", h1)>>) }
      [] cat = "group6" ->
           { AddressGroup6(<<"mix">>, <<Line("address-object fqdn", f1),
                                        Line("address-object ipv4", h1)>>) }
      [] cat = "service" -> { ServiceStanza(tcp80, <<"TCP", "80", "80">>) }
      [] cat = "sgroup" -> {}
      [] cat = "rules" ->
           { Rule("LAN", "WAN", "allow", NameRef(r1), AnyRef, AnyRef),
             Rule("LAN", "DMZ", "deny", AnyRef, AnyRef, AnyRef) }

Pool(cat) ==
    CASE mode \in {"objects", "order"} -> ObjectPool(cat)
      [] mode = "rules"   -> IF cat = "rules" THEN RulePool ELSE {}
      [] mode = "inactive" -> IF cat = "rules" THEN InactivePool ELSE {}
      [] mode = "vlan"    -> IF cat = "rules" THEN VlanPool ELSE {}
      [] mode = "rerun"   -> RerunPool(cat)

RECURSIVE SumLen(_, _)
SumLen(f, cats) ==
    IF cats = {} THEN 0
    ELSE LET c == CHOOSE x \in cats : TRUE
         IN  Len(f[c]) + SumLen(f, cats \ {c})

\* The stanzas the file may still hold.
Room == IF mode \in {"rules", "inactive"} THEN MaxRules
        ELSE IF mode = "vlan" THEN MaxZoneRules
        ELSE MaxStanzas - SumLen(file, DOMAIN file)

SeqsUpTo(S, n) == UNION {[1 .. k -> S] : k \in 0 .. n}

\* The lists of stanzas of a category a file may hold.
Inputs(cat) == SeqsUpTo(Pool(cat), IF Pool(cat) = {} THEN 0 ELSE Room)

\* ------------------------------------------------------ parse.find_objects
Category(p) ==
    CASE p = "ipv4" -> "ipv4" [] p = "fqdn" -> "fqdn"
      [] p \in {"group", "nested"} -> "group4"
      [] p = "group6" -> "group6" [] p = "service" -> "service"
      [] p \in {"sgroup", "snested"} -> "sgroup"
      [] p = "rules" -> "rules"

\* The list a pass loops over: the stanzas found, and the clones of those
\* that split.
Found(p, lst) ==
    CASE p = "ipv4"    -> duplicate_splitter(lst, "ipv4")
      [] p = "fqdn"    -> duplicate_splitter(lst, "fqdn")
      [] p = "group"   -> duplicate_splitter(
                              find_objects_wo_child(lst, "address-group ipv4"),
                              "ipv4-group")
      [] p = "group6"  -> duplicate_splitter(
                              find_objects_wo_child(lst, "address-group ipv6"),
                              "ipv6-group")
      [] p = "nested"  -> find_objects_w_child(lst, "address-group ipv4")
      [] p = "service" -> lst
      [] p = "sgroup"  -> find_objects_wo_child(lst, "service-group")
      [] p = "snested" -> find_objects_w_child(lst, "service-group")
      [] p = "rules"   -> duplicate_splitter(lst, "rule")

Find ==
    /\ pc \in Passes /\ ~loaded
    /\ \E lst \in (IF Category(pc) \in DOMAIN file THEN {file[Category(pc)]}
                   ELSE Inputs(Category(pc))) :
          /\ file' = Put(file, Category(pc), lst)
          /\ work' = Found(pc, lst)
    /\ loaded' = TRUE
    /\ idx' = 1
    /\ IF pc = "rules"             \* parse_rules: acl_list = [], the file opened 'w'
       THEN acl_list' = <<>> /\ broken_rules' = <<>> /\ UNCHANGED default_zone_map
       ELSE UNCHANGED rule_vars
    /\ UNCHANGED <<pc, pending, addr_tabs, svc_tabs, remote, rulesets, cover, combine, earlier,
                   run, mode, listed, MAPPING_FLAG, VLAN_ANSWER, broken_objects>>

\* -------------------------------------------------------------------- main
\* The answer to the mapping question; the default rule map of the zones.
Main ==
    /\ pc = "main"
    /\ IF run = 1 THEN MAPPING_FLAG' \in BOOLEAN ELSE UNCHANGED MAPPING_FLAG
    /\ default_zone_map' = [z \in DOMAIN ZONES |-> <<>>]
    /\ pc' = NextPc(pc)
    /\ UNCHANGED <<loaded, work, idx, pending, addr_tabs, svc_tabs, remote, rulesets,
                   acl_list, broken_rules, cover, combine, earlier, file, run, mode, listed,
                   VLAN_ANSWER, broken_objects>>

\* Step 5 of main: the answer to the VLAN question (the answers of a second
\* run are those of the first).
AskVlanRules ==
    /\ pc = "vlan_ask"
    /\ IF run = 1 THEN VLAN_ANSWER' \in BOOLEAN ELSE UNCHANGED VLAN_ANSWER
    /\ pc' = NextPc(pc)
    /\ UNCHANGED <<loaded, work, idx, pending, addr_tabs, svc_tabs, remote, rulesets,
                   rule_vars, cover, combine, earlier, file, run, mode, listed,
                   MAPPING_FLAG, broken_objects>>

NoRange == [lo |-> 0, hi |-> 0, out |-> <<>>, err |-> FALSE, done |-> TRUE]
NoCombine == [service_objs |-> <<>>, result |-> <<>>, done |-> TRUE]
NoOutcome == [bound |-> <<>>, groups |-> {}, rules |-> {}, finished |-> FALSE]
NoListing == [objs |-> {}, grps |-> {}, nobjs |-> 0, ngrps |-> 0]
NoRun == [objs |-> <<>>, grps |-> <<>>, l3 |-> <<>>, inbound |-> <<>>, vpn |-> <<>>,
          completed |-> FALSE]

\* The script starts: its module-level dictionaries are empty.
Start ==
    /\ pc = "main" /\ loaded = FALSE /\ work = <<>> /\ idx = 1 /\ pending = NoPending
    /\ objects = EmptyDict /\ fqdn_objects = EmptyDict /\ range_objects = EmptyDict
    /\ object_groups = EmptyDict /\ range_object_groups = EmptyDict
    /\ fqdn_object_groups = EmptyDict /\ group_of_groups = EmptyDict
    /\ service_objects = EmptyDict /\ service_object_groups = EmptyDict
    /\ service_group_of_groups = EmptyDict
    /\ default_zone_map = EmptyDict
    /\ MAPPING_FLAG = FALSE /\ VLAN_ANSWER = FALSE
    /\ broken_objects = <<>> /\ broken_rules = <<>> /\ acl_list = <<>>
    /\ listed = NoListing

NoRules == l3_rules = <<>> /\ inbound_rules = <<>> /\ vpn_rules = <<>> /\ written = NoRun

Init ==
    /\ Start /\ NoRules
    /\ cover = NoRange /\ combine = NoCombine /\ earlier = NoOutcome
    /\ run = 1 /\ mode = "objects" /\ file = EmptyDict
    /\ remote_objs \in {<<>>, Existing} /\ remote_grps = <<>>

InitRules ==
    /\ Start /\ NoRules
    /\ cover = NoRange /\ combine = NoCombine /\ earlier = NoOutcome
    /\ run = 1 /\ mode = "rules" /\ file = World
    /\ remote_objs = <<>> /\ remote_grps = <<>>

InitInactive ==
    /\ Start /\ NoRules
    /\ cover = NoRange /\ combine = NoCombine /\ earlier = NoOutcome
    /\ run = 1 /\ mode = "inactive" /\ file = World
    /\ remote_objs = <<>> /\ remote_grps = <<>>

InitVlan ==
    /\ Start /\ NoRules
    /\ cover = NoRange /\ combine = NoCombine /\ earlier = NoOutcome
    /\ run = 1 /\ mode = "vlan" /\ file = World
    /\ remote_objs = <<>> /\ remote_grps = <<>>

InitRerun ==
    /\ Start /\ NoRules
    /\ cover = NoRange /\ combine = NoCombine /\ earlier = NoOutcome
    /\ run = 1 /\ mode = "rerun" /\ file = EmptyDict
    /\ remote_objs = <<>> /\ remote_grps = <<>>

\* The run ends before its time: an exception of a Dashboard call, or the
\* process is terminated.
Interrupt ==
    /\ run = 1
    /\ pc \in {"ipv4", "fqdn", "group", "group6"} /\ loaded
    /\ pc' = "abort"
    /\ UNCHANGED <<loaded, work, idx, pending, addr_tabs, svc_tabs, remote, rulesets,
                   rule_vars, env, broken_objects>>

\* The script is run again on the same file, with the same answers.
Restart ==
    /\ run = 1 /\ pc \in {"done", "abort"}
    /\ run' = 2
    /\ written' = [objs |-> remote_objs, grps |-> remote_grps, l3 |-> l3_rules,
                   inbound |-> inbound_rules, vpn |-> vpn_rules,
                   completed |-> pc = "done"]
    /\ pc' = "main" /\ loaded' = FALSE /\ work' = <<>> /\ idx' = 1
    /\ pending' = NoPending
    /\ objects' = EmptyDict /\ fqdn_objects' = EmptyDict /\ range_objects' = EmptyDict
    /\ object_groups' = EmptyDict /\ range_object_groups' = EmptyDict
    /\ fqdn_object_groups' = EmptyDict /\ group_of_groups' = EmptyDict
    /\ service_objects' = EmptyDict /\ service_object_groups' = EmptyDict
    /\ service_group_of_groups' = EmptyDict
    /\ default_zone_map' = EmptyDict
    /\ acl_list' = <<>>
    /\ UNCHANGED <<remote, l3_rules, inbound_rules, vpn_rules, broken_rules,
                   broken_objects, cover, combine, earlier, file, mode, listed, MAPPING_FLAG,
                   VLAN_ANSWER>>

Next ==
    \/ Main \/ ListPolicyObjects \/ Find
    \/ PassIPv4 \/ RangeObject \/ PassFqdn \/ PassGroup \/ PassGroup6 \/ PassNested
    \/ PassService \/ PassServiceGroup \/ PassServiceNested
    \/ ParseRule \/ CreateMxRules \/ AskVlanRules \/ CreateVlanRules \/ DefaultMapToCsv

NextRerun == Next \/ Interrupt \/ Restart

Spec      == Init /\ [][Next]_vars
SpecRules == InitRules /\ [][Next]_vars
SpecRerun == InitRerun /\ [][NextRerun]_vars
SpecInactive == InitInactive /\ [][Next]_vars
SpecVlan == InitVlan /\ [][Next]_vars

\* ------------------------------------------------ the range summarisation
\* build_mx_object, `range lo hi` line: the list of CIDRs of the range.
InitRange ==
    /\ \E lo \in Addresses, hi \in Addresses :
          cover = [lo |-> lo, hi |-> hi, out |-> <<>>, err |-> FALSE, done |-> FALSE]
    /\ Start /\ NoRules /\ combine = NoCombine /\ earlier = NoOutcome
    /\ run = 1 /\ mode = "range" /\ file = EmptyDict
    /\ remote_objs = <<>> /\ remote_grps = <<>>

RangeLine ==
    /\ ~cover.done
    /\ LET r == summarize_address_range(cover.lo, cover.hi)
       IN  cover' = [cover EXCEPT !.out = r.nets, !.err = r.err, !.done = TRUE]
    /\ UNCHANGED <<ctl, addr_tabs, svc_tabs, remote, rulesets, rule_vars, combine, earlier, file, run,
                   mode, listed, MAPPING_FLAG, VLAN_ANSWER, broken_objects>>

SpecRange == InitRange /\ [][RangeLine]_vars

\* The least number of CIDR blocks that partition [lo, hi]: the first block
\* starts at lo, is aligned and lies inside the interval.  least[a] is the
\* least number for [a, hi], for the addresses a after lo.
FewestFrom(lo, hi, least) ==
    LET sizes == {k \in 0 .. IpBits :
                      /\ lo % Pow2(k) = 0
                      /\ lo + Pow2(k) - 1 <= hi}
        counts == {1 + least[lo + Pow2(k)] : k \in sizes}
        fewest == CHOOSE c \in counts : \A d \in counts : c <= d
    IN  [a \in lo .. hi + 1 |-> IF a = lo THEN fewest ELSE least[a]]

RECURSIVE Fewest(_, _)
Fewest(lo, hi) ==
    IF lo > hi THEN [a \in {hi + 1} |-> 0]
    ELSE FewestFrom(lo, hi, Fewest(lo + 1, hi))

MinCover(lo, hi) == Fewest(lo, hi)[lo]

\* C1: for every range lo..hi with lo <= hi, the CIDRs computed for the range
\* are well-formed blocks that cover exactly the closed interval [lo, hi]
\* (nothing outside, nothing missing, no two elements overlapping) and their
\* number is the least number of blocks that can cover the interval.
C1_RangeCoverExactMinimal ==
    (cover.done /\ cover.lo <= cover.hi) =>
        /\ ~cover.err
        /\ \A i \in 1 .. Len(cover.out) : IsCidr(cover.out[i])
        /\ UNION {NetAddrs(cover.out[i]) : i \in 1 .. Len(cover.out)}
              = cover.lo .. cover.hi
        /\ \A i, j \in 1 .. Len(cover.out) :
              i # j => NetAddrs(cover.out[i]) \cap NetAddrs(cover.out[j]) = {}
        /\ Len(cover.out) = MinCover(cover.lo, cover.hi)

\* The example of the specification: 1..4 gives 1/32, 2/31, 4/32 (here the
\* prefix lengths are counted on IpBits bits).
C1_Witness ==
    /\ cover.done
    /\ cover.lo = 1 /\ cover.hi = 4
    /\ cover.out = << [ip |-> 1, len |-> IpBits],
                      [ip |-> 2, len |-> IpBits - 1],
                      [ip |-> 4, len |-> IpBits] >>

\* ------------------------------------------- the combination of services
\* The number of services of the list combined.
MaxServices == 3

\* Services as the tables hold them: <<protocol, port expression>>.
Primitives ==
    { <<"TCP", <<"80">>>>, <<"TCP", <<"443">>>>, <<"TCP", <<"1000", "-", "2000">>>>,
      <<"UDP", <<"53">>>>, <<"UDP", <<"53", "-", "60">>>>,
      <<"ICMP", <<"N/A">>>>, <<"ICMPV6", <<"N/A">>>> }

InitCombine ==
    /\ \E service_objs \in SeqsUpTo(Primitives, MaxServices) :
          combine = [service_objs |-> service_objs, result |-> <<>>, done |-> FALSE]
    /\ Start /\ NoRules /\ cover = NoRange /\ earlier = NoOutcome
    /\ run = 1 /\ mode = "combine" /\ file = EmptyDict
    /\ remote_objs = <<>> /\ remote_grps = <<>>

\* service_parser: the services of a group are combined
CombineServices ==
    /\ ~combine.done
    /\ combine' = [combine EXCEPT !.result = combine_like_services(combine.service_objs),
                                  !.done = TRUE]
    /\ UNCHANGED <<ctl, addr_tabs, svc_tabs, remote, rulesets, rule_vars, cover, earlier, file,
                   run, mode, listed, MAPPING_FLAG, VLAN_ANSWER, broken_objects>>

SpecCombine == InitCombine /\ [][CombineServices]_vars

IsPortRange(service) == \E i \in 1 .. Len(service[2]) : service[2][i] = "-"

\* The ports of a comma-joined port expression.
PortsOf(expr) == {<<expr[i]>> : i \in {j \in 1 .. Len(expr) : j % 2 = 1}}

\* The places of a list that hold a single port of a protocol.
Singles(list, proto) ==
    {i \in 1 .. Len(list) : list[i][1] = proto /\ ~IsPortRange(list[i])}

Count(list, service) == Cardinality({i \in 1 .. Len(list) : list[i] = service})

\* One primitive of TCP / UDP that joins every distinct single port, if any.
JoinsSingles(proto) ==
    LET given == {combine.service_objs[i][2] : i \in Singles(combine.service_objs, proto)}
        got   == Singles(combine.result, proto)
    IN  IF given = {} THEN got = {}
        ELSE /\ Cardinality(got) = 1
             /\ \A i \in got :
                   /\ PortsOf(combine.result[i][2]) = given
                   /\ Len(combine.result[i][2]) = 2 * Cardinality(given) - 1
                   /\ \A j \in 1 .. Len(combine.result[i][2]) :
                         j % 2 = 0 => combine.result[i][2][j] = ","

\* One primitive of ICMP / ICMPV6 if the list holds one.
KeepsOne(proto) ==
    Count(combine.result, <<proto, <<"N/A">>>>) =
        IF Count(combine.service_objs, <<proto, <<"N/A">>>>) > 0 THEN 1 ELSE 0

\* C11: for every list of service primitives the combination returns one TCP
\* primitive joining all distinct TCP single ports (if any), one UDP primitive
\* built the same way, every lo-hi range as its own primitive, one ICMP
\* primitive if the list holds ICMP and one ICMPV6 primitive if it holds
\* ICMPV6 (both for a list that holds both), and nothing else.
C11_CombineKeepsEveryProtocol ==
    combine.done /\ mode = "combine" =>
        /\ JoinsSingles("TCP") /\ JoinsSingles("UDP")
        /\ \A s \in {p \in Primitives : IsPortRange(p)} :
              Count(combine.result, s) = Count(combine.service_objs, s)
        /\ KeepsOne("ICMP") /\ KeepsOne("ICMPV6")
        /\ \A i \in 1 .. Len(combine.result) :
              \/ IsPortRange(combine.result[i])
              \/ combine.result[i][1] \in {"TCP", "UDP", "ICMP", "ICMPV6"}

\* --------------------------------------------------- the masks of networks
\* The prefix lengths of the table.
MaskBits == 32

\* The bits of a prefix of length p that fall in the i-th octet.
OctetBits(p, i) == IF p <= 8 * (i - 1) THEN 0 ELSE Min(8, p - 8 * (i - 1))

Dotted(o) == ToString(o[1]) \o "." \o ToString(o[2]) \o "." \o ToString(o[3])
             \o "." \o ToString(o[4])

\* The netmask of a prefix length and its wildcard (bitwise inverse) form.
Netmask(p)  == Dotted([i \in 1 .. 4 |-> 256 - Pow2(8 - OctetBits(p, i))])
Wildcard(p) == Dotted([i \in 1 .. 4 |-> Pow2(8 - OctetBits(p, i)) - 1])

\* The show-run files with one object `network 0.0.0.0 M`, M a mask.
InitMasks ==
    /\ Start /\ NoRules
    /\ cover = NoRange /\ combine = NoCombine /\ earlier = NoOutcome
    /\ run = 1 /\ mode = "masks"
    /\ \E p \in 1 .. MaskBits :
          \E m \in {Netmask(p), Wildcard(p)} :
             file = [cat \in {"ipv4", "fqdn"} |->
                        IF cat = "ipv4"
                        THEN <<AddressObject(<<"net">>, <<Network(0, m)>>)>>
                        ELSE <<>>]
    /\ remote_objs = <<>> /\ remote_grps = <<>>

NextMasks == Main \/ ListPolicyObjects \/ Find \/ PassIPv4

SpecMasks == InitMasks /\ [][NextMasks]_vars

\* The mask of the file, and the prefix length it is a form of.
MaskRead == file["ipv4"][1].children[1].s
PrefixRead == CHOOSE p \in 1 .. MaskBits : MaskRead \in {Netmask(p), Wildcard(p)}

\* C17: for every prefix length p from 1 to 32 the table maps the netmask of
\* length p and its wildcard form to p, so that `network N M` yields the CIDR
\* N/p for either form of M; distinct netmasks map to distinct prefix
\* lengths, and mask -> prefix -> mask is the identity on netmasks.
C17_EveryMaskYieldsItsPrefix ==
    mode = "masks" =>
        /\ pc # "abort"
        /\ pc = "fqdn" =>
              /\ Len(remote_objs) = 1
              /\ remote_objs[1].cidr = [ip |-> 0, len |-> PrefixRead]
        /\ \A p \in 1 .. MaskBits :
              /\ Netmask(p) \in DOMAIN SUBNET_MASKS
              /\ Netmask(SUBNET_MASKS[Netmask(p)]) = Netmask(p)
        /\ \A p, q \in 1 .. MaskBits :
              SUBNET_MASKS[Netmask(p)] = SUBNET_MASKS[Netmask(q)] => p = q

\* ------------------------------------------------- the order of the stanzas
\* The name of the Policy Object or Policy Object Group of an id.
NameOf(id) == IF id > 0 THEN remote_objs[id].name ELSE remote_grps[0 - id].name

NamesOf(ids) == {NameOf(ids[i]) : i \in 1 .. Len(ids)}

\* A reference of a rule, by name.
RefByName(tok) ==
    [k |-> tok.k, name |-> IF tok.k \in {"OBJ", "GRP"} THEN NameOf(tok.id) ELSE <<tok.v>>]

RefsByName(val) == {RefByName(val.toks[i]) : i \in 1 .. Len(val.toks)}

\* What a run leaves: the names bound in each table, the groups of the
\* organization with the names of their members, the rules with the names
\* they resolved to.
Outcome ==
    [bound |-> <<DOMAIN objects, DOMAIN fqdn_objects, DOMAIN range_objects,
                 DOMAIN object_groups, DOMAIN range_object_groups,
                 DOMAIN fqdn_object_groups, DOMAIN group_of_groups,
                 DOMAIN service_objects, DOMAIN service_object_groups,
                 DOMAIN service_group_of_groups>>,
     groups |-> {[name |-> remote_grps[i].name,
                  members |-> NamesOf(remote_grps[i].objectIds)] :
                     i \in 1 .. Len(remote_grps)},
     rules |-> {[src_zone |-> acl_list[i].src_zone, dst_zone |-> acl_list[i].dst_zone,
                 action |-> acl_list[i].action,
                 src |-> RefsByName(acl_list[i].src),
                 dst |-> RefsByName(acl_list[i].dst),
                 services |-> {acl_list[i].services[j] :
                                  j \in 1 .. Len(acl_list[i].services)}] :
                    i \in 1 .. Len(acl_list)},
     finished |-> pc = "done"]

\* The orders of a list of stanzas.
Orders(lst) ==
    {[i \in 1 .. Len(lst) |-> lst[p[i]]] : p \in Permutations(1 .. Len(lst))}

\* The files that hold the stanzas of the file f in another order (the
\* passes find their stanzas by category, in the order of the file).
Reordered(f) == {g \in [DOMAIN f -> UNION {Orders(f[c]) : c \in DOMAIN f}] :
                    \A c \in DOMAIN f : g[c] \in Orders(f[c])}

InitOrder ==
    /\ Start /\ NoRules
    /\ cover = NoRange /\ combine = NoCombine /\ earlier = NoOutcome
    /\ run = 1 /\ mode = "order" /\ file = EmptyDict
    /\ remote_objs \in {<<>>, Existing} /\ remote_grps = <<>>

\* The script is run on the stanzas of the file in another order, against
\* the organization as it was before the run.
Reorder ==
    /\ run = 1 /\ pc \in {"done", "abort"}
    /\ run' = 2
    /\ earlier' = Outcome
    /\ file' \in Reordered(file)
    /\ remote_objs' = SubSeq(remote_objs, 1, listed.nobjs)
    /\ remote_grps' = SubSeq(remote_grps, 1, listed.ngrps)
    /\ pc' = "main" /\ loaded' = FALSE /\ work' = <<>> /\ idx' = 1
    /\ pending' = NoPending
    /\ objects' = EmptyDict /\ fqdn_objects' = EmptyDict /\ range_objects' = EmptyDict
    /\ object_groups' = EmptyDict /\ range_object_groups' = EmptyDict
    /\ fqdn_object_groups' = EmptyDict /\ group_of_groups' = EmptyDict
    /\ service_objects' = EmptyDict /\ service_object_groups' = EmptyDict
    /\ service_group_of_groups' = EmptyDict
    /\ default_zone_map' = EmptyDict
    /\ acl_list' = <<>> /\ broken_rules' = <<>> /\ broken_objects' = <<>>
    /\ l3_rules' = <<>> /\ inbound_rules' = <<>> /\ vpn_rules' = <<>>
    /\ listed' = NoListing
    /\ UNCHANGED <<written, cover, combine, mode, MAPPING_FLAG, VLAN_ANSWER>>

NextOrder == Next \/ Reorder

SpecOrder == InitOrder /\ [][NextOrder]_vars

\* ------------------------------------------------------ the order of rules
\* The number of access-rule stanzas of a file.
MaxEmitRules == 2

\* Rules over the objects of World: one with two sources, two destinations
\* and two services, an inbound rule, a rule with an `exit` line (the lines
\* after it make a sub-rule), a rule on single objects, and a rule whose
\* source is not defined.
EmitPool ==
    { Rule("LAN", "WAN", "allow", GroupRef(<<"gr">>), GroupRef(<<"sg">>),
           GroupRef(<<"mix">>)),
      Rule("WAN", "LAN", "deny", NameRef(h1), NameRef(<<"dns">>), AnyRef),
      RuleStanza(Fields("LAN", "WAN", "allow", NameRef(h1), NameRef(tcp80),
                        NameRef(f1)),
                 <<Word("comment", "c1"), EXIT, Word("comment", "c2")>>),
      Rule("LAN", "WAN", "deny", NameRef(h1), NameRef(<<"ping">>), NameRef(f1)),
      Rule("LAN", "WAN", "allow", NameRef(zz), NameRef(tcp80), AnyRef) }

InitEmit ==
    /\ Start /\ NoRules
    /\ cover = NoRange /\ combine = NoCombine /\ earlier = NoOutcome
    /\ run = 1 /\ mode = "emit"
    /\ \E rules \in SeqsUpTo(EmitPool, MaxEmitRules) : file = Put(World, "rules", rules)
    /\ remote_objs = <<>> /\ remote_grps = <<>>

SpecEmit == InitEmit /\ [][Next]_vars

\* ------------------------------------------------- the names of entities
\* The number of pieces of a raw identifier (its quotes apart).
MaxPieces == 2

\* The raw identifiers: pieces "a", ".", ":", "*", bare or in double quotes.
RawNames ==
    LET plain == SeqsUpTo({"a", ".", ":", "*"}, MaxPieces) \ {<<>>}
    IN  plain \cup {<<QUOTE>> \o n \o <<QUOTE>> : n \in plain}

NameCategories == {"ipv4", "fqdn", "group4", "group6", "service", "sgroup"}

\* The show-run file in which the entity of the category is named N, a group
\* has it as a member, and a rule refers to it under the same name in its
\* child lines (its header gives the zones alone).
NamesFile(N, c) ==
    [cat \in NameCategories \cup {"rules"} |->
       CASE cat = "ipv4" ->
              <<AddressObject(h1, <<Host(1)>>), AddressObject(r1, <<IpRange(1, 4)>>)>>
              \o (IF c = "ipv4" THEN <<AddressObject(N, <<Host(2)>>)>> ELSE <<>>)
         [] cat = "fqdn" ->
              <<FqdnAddress(f1, <<Word("domain", "example.com")>>)>>
              \o (IF c = "fqdn" THEN <<FqdnAddress(N, <<Word("domain", "example.org")>>)>>
                  ELSE <<>>)
         [] cat = "group4" ->
              CASE c = "ipv4" -> <<AddressGroup(g1, <<Line("address-object ipv4", N)>>)>>
                [] c = "group4" ->
                     <<AddressGroup(N, <<Line("address-object ipv4", h1)>>),
                       AddressGroup(<<"n1">>, <<Line("address-object ipv4", h1),
                                                Line("address-group ipv4", N)>>)>>
                [] OTHER -> <<>>
         [] cat = "group6" ->
              CASE c = "fqdn" -> <<AddressGroup6(<<"fg">>, <<Line("address-object fqdn", N)>>)>>
                [] c = "group6" -> <<AddressGroup6(N, <<Line("address-object fqdn", f1)>>)>>
                [] OTHER -> <<>>
         [] cat = "service" ->
              <<ServiceStanza(tcp80, <<"TCP", "80", "80">>)>>
              \o (IF c = "service" THEN <<ServiceStanza(N, <<"TCP", "443", "443">>)>>
                  ELSE <<>>)
         [] cat = "sgroup" ->
              CASE c = "service" -> <<ServiceGroup(<<"sg">>, <<Line("service-object", N)>>)>>
                [] c = "sgroup" ->
                     <<ServiceGroup(N, <<Line("service-object", tcp80)>>),
                       ServiceGroup(<<"sn">>, <<Line("service-object", tcp80),
                                                Line("service-group", N)>>)>>
                [] OTHER -> <<>>
         [] cat = "rules" ->
              <<RuleStanza(<<Word("from", "LAN"), Word("to", "WAN")>>,
                  Fields("LAN", "WAN", "allow",
                     CASE c = "ipv4" -> NameRef(N) [] c = "group4" -> GroupRef(N)
                       [] OTHER -> NameRef(h1),
                     CASE c = "service" -> NameRef(N) [] c = "sgroup" -> GroupRef(N)
                       [] OTHER -> NameRef(tcp80),
                     CASE c = "fqdn" -> NameRef(N) [] c = "group6" -> GroupRef(N)
                       [] OTHER -> NameRef(h1)))>>]

InitNames ==
    /\ Start /\ NoRules
    /\ cover = NoRange /\ combine = NoCombine /\ earlier = NoOutcome
    /\ run = 1 /\ mode = "names"
    /\ \E N \in RawNames : \E c \in NameCategories : file = NamesFile(N, c)
    /\ remote_objs = <<>> /\ remote_grps = <<>>

SpecNames == InitNames /\ [][Next]_vars

\* The identifiers that hold the words the parsers look for: pieces "a",
\* "any", "name", "group" (as in company, hostnames), with a piece "a" at
\* least.
WordNames ==
    {n \in SeqsUpTo({"a", "any", "name", "group"}, MaxPieces) : "a" \in Range(n)}

InitWords ==
    /\ Start /\ NoRules
    /\ cover = NoRange /\ combine = NoCombine /\ earlier = NoOutcome
    /\ run = 1 /\ mode = "names"
    /\ \E N \in WordNames : \E c \in NameCategories : file = NamesFile(N, c)
    /\ remote_objs = <<>> /\ remote_grps = <<>>

SpecWords == InitWords /\ [][Next]_vars

\* ---------------------------------------------------------- nested groups
\* The number of member lines of the nested group.
MaxMembers == 2

\* The member lines of the nested group: a host object, a range object, a
\* flat group, a group with a range member, a nested group.
MemberLines ==
    { Line("address-object ipv4", h1), Line("address-object ipv4", r1),
      Line("address-group ipv4", g1), Line("address-group ipv4", <<"gr">>),
      Line("address-group ipv4", <<"n1">>) }

\* The show-run file with the nested group `nest` of the members, defined
\* after the groups it names, and a rule whose source is `group nest`.
NestedFile(members) ==
    [cat \in NameCategories \cup {"rules"} |->
       CASE cat = "ipv4" ->
              <<AddressObject(h1, <<Host(1)>>), AddressObject(r1, <<IpRange(1, 4)>>)>>
         [] cat = "group4" ->
              <<AddressGroup(g1, <<Line("address-object ipv4", h1)>>),
                AddressGroup(<<"gr">>, <<Line("address-object ipv4", r1),
                                         Line("address-object ipv4", h1)>>),
                AddressGroup(<<"n1">>, <<Line("address-object ipv4", h1),
                                         Line("address-group ipv4", g1)>>),
                AddressGroup(<<"nest">>, members)>>
         [] cat = "service" -> <<ServiceStanza(tcp80, <<"TCP", "80", "80">>)>>
         [] cat = "rules" ->
              <<Rule("LAN", "WAN", "allow", GroupRef(<<"nest">>), NameRef(tcp80), AnyRef)>>
         [] OTHER -> <<>>]

InitNested ==
    /\ Start /\ NoRules
    /\ cover = NoRange /\ combine = NoCombine /\ earlier = NoOutcome
    /\ run = 1 /\ mode = "nested"
    /\ \E members \in SeqsUpTo(MemberLines, MaxMembers) :
          /\ \E i \in 1 .. Len(members) : members[i].kw = "address-group ipv4"
          /\ file = NestedFile(members)
    /\ remote_objs = <<>> /\ remote_grps = <<>>

SpecNested == InitNested /\ [][Next]_vars

\* ------------------------------------------------ the stanzas that split
\* The number of child lines of the stanza split.
MaxChildren == 5

\* The show-run files with one address object, whose child lines are host
\* lines, `exit` lines and `name h4` lines in every arrangement.
InitSplit ==
    /\ Start /\ NoRules
    /\ cover = NoRange /\ combine = NoCombine /\ earlier = NoOutcome
    /\ run = 1 /\ mode = "split"
    /\ \E children \in SeqsUpTo({Host(1), EXIT, Line("name", <<"h4">>)}, MaxChildren) :
          file = [cat \in {"ipv4", "fqdn"} |->
                     IF cat = "ipv4" THEN <<AddressObject(<<"h3">>, children)>>
                     ELSE <<>>]
    /\ remote_objs = <<>> /\ remote_grps = <<>>

NextSplit == Main \/ ListPolicyObjects \/ Find \/ PassIPv4

SpecSplit == InitSplit /\ [][NextSplit]_vars

\* ------------------------------------------------------------ redefinition
\* The name a stanza is known by in its category.
SanitizedName(element) ==
    CASE element.kw = "address-object ipv4" -> sanitize_ipv4(element.text)
      [] element.kw = "address-object fqdn" -> sanitize_fqdn(element.text)
      [] element.kw = "address-group ipv4"  -> sanitize_ipv4(element.text)
      [] element.kw = "address-group ipv6"  -> sanitize_quote(element.text)
      [] element.kw = "service-object"      -> service_name(element.text)
      [] element.kw = "service-group"       -> sanitize_quote(element.text)

RemoteObject(name, type) ==
    \E i \in 1 .. Len(remote_objs) :
        remote_objs[i].name = name /\ remote_objs[i].type = type
RemoteGroup(name) == \E i \in 1 .. Len(remote_grps) : remote_grps[i].name = name

\* A definition of the category of the pass under way has produced a remote
\* object (for a service group, which has none, an entry of its table).
Produced(name) ==
    CASE pc = "ipv4"   -> RemoteObject(name, "cidr") \/ RemoteGroup(name \o RANGE_SUFFIX)
      [] pc = "fqdn"   -> RemoteObject(name, "fqdn")
      [] pc = "group"  -> RemoteGroup(name)
      [] pc = "group6" -> RemoteGroup(name)
      [] pc = "sgroup" -> name \in DOMAIN service_object_groups
      [] OTHER -> FALSE

\* The loop of a pass is at a later definition of a name an earlier stanza
\* of the list defined and that has produced.
AtRedefinition ==
    /\ pc \in {"ipv4", "fqdn", "group", "group6", "sgroup"}
    /\ InLoop(pc)
    /\ \E j \in 1 .. idx - 1 : SanitizedName(work[j]) = SanitizedName(work[idx])
    /\ Produced(SanitizedName(work[idx]))

\* The loop of pass 6 is at a later, valid definition of a service object.
AtServiceRedefinition ==
    /\ InLoop("service")
    /\ \E j \in 1 .. idx - 1 : SanitizedName(work[j]) = SanitizedName(work[idx])
    /\ SanitizedName(work[idx]) \in DOMAIN service_objects
    /\ Len(work[idx].words) >= 3 /\ work[idx].words[1] \in {"TCP", "UDP"}

ZoneWords == {"LAN", "DMZ", "WAN", "VPN"}
ActionWords == {"allow", "deny", "discard"}

\* The cells of the map: <<source zone, destination zone, action>>.
Cells(map) ==
    UNION {{<<s, map[s][i][1], map[s][i][2]>> : i \in 1 .. Len(map[s])} : s \in DOMAIN map}

\* The rules handed to the Dashboard.
Handed == Range(l3_rules) \cup Range(inbound_rules) \cup Range(vpn_rules)

\* The loop of parse_rules is at the active rule from z1 to z2 with action a
\* whose source, destination and service are `any`.
AtAnyRule(z1, z2, a) ==
    InLoop("rules") /\ work[idx] = Rule(z1, z2, a, AnyRef, AnyRef, AnyRef)

\* C3 (as the code has it): an active rule whose source, destination and
\* service are `any` and which carries action and zones produces no rule and
\* no record; when both zones are keys of ZONES it sets exactly the cell
\* DefaultZoneMap[src_zone][dst_zone], to "allow" when its action is allow
\* and to "deny" for any other action; when a zone is not a key of ZONES the
\* map is left as it is.
C3_AnyRuleSetsCellOfConfiguredZones ==
    [][ \A z1 \in ZoneWords, z2 \in ZoneWords, a \in ActionWords :
          AtAnyRule(z1, z2, a) =>
            /\ acl_list' = acl_list
            /\ broken_rules' = broken_rules
            /\ Cells(default_zone_map') =
                 IF z1 \in DOMAIN ZONES /\ z2 \in DOMAIN ZONES
                 THEN {c \in Cells(default_zone_map) : <<c[1], c[2]>> # <<z1, z2>>}
                      \cup {<<z1, z2, IF a = "allow" THEN "allow" ELSE "deny">>}
                 ELSE Cells(default_zone_map) ]_vars

\* The rule from LAN to DMZ with action discard has been read: the cell is
\* "deny", and there is no rule and no record.
C3_Witness ==
    /\ pc = "rules" /\ loaded /\ idx = 2
    /\ work[1] = Rule("LAN", "DMZ", "discard", AnyRef, AnyRef, AnyRef)
    /\ Cells(default_zone_map) = {<<"LAN", "DMZ", "deny">>}
    /\ acl_list = <<>> /\ broken_rules = <<>>

\* C3 (as stated): ... exactly one cell is set, to the rule's action, for
\* every pair of zone names the rule may carry.
C3_AnyRuleSetsCellOfEveryZonePair ==
    [][ \A z1 \in ZoneWords, z2 \in ZoneWords, a \in ActionWords :
          AtAnyRule(z1, z2, a) =>
            /\ acl_list' = acl_list
            /\ \E c \in Cells(default_zone_map') :
                  c = <<z1, z2, a>> ]_vars

\* ------------------------------------------------------ protocol and policy
\* C4: every rule handed to the Dashboard has its protocol in {tcp, udp,
\* icmp, icmp6, any} and its policy in {allow, deny}.
C4_ProtocolAndPolicyOfMeraki ==
    \A r \in Handed :
        /\ r.protocol \in {"tcp", "udp", "icmp", "icmp6", "any"}
        /\ r.policy \in {"allow", "deny"}

\* ----------------------------------------------------------- a second run
\* C5: when the pipeline has run to its end twice on one file, the first run
\* starting from an empty organization, the second run has created no Policy
\* Object and no Policy Object Group, and the rulesets it wrote are those the
\* first run wrote.
C5_SecondRunChangesNothing ==
    (run = 2 /\ pc = "done" /\ written.completed) =>
        /\ remote_objs = written.objs
        /\ remote_grps = written.grps
        /\ l3_rules = written.l3
        /\ inbound_rules = written.inbound
        /\ vpn_rules = written.vpn

\* C6: no Policy Object and no Policy Object Group is created under a name
\* the Dashboard listed when the run started.
C6_ListedNameNeverCreated ==
    /\ \A i \in listed.nobjs + 1 .. Len(remote_objs) :
          remote_objs[i].name \notin listed.objs
    /\ \A i \in listed.ngrps + 1 .. Len(remote_grps) :
          remote_grps[i].name \notin listed.grps

\* --------------------------------------------------------- FQDN as a source
\* A reference to an FQDN object or to a group of the FQDN category.
IsFqdnRef(tok) ==
    \/ tok.k = "OBJ" /\ tok.id \in Values(fqdn_objects)
    \/ tok.k = "GRP" /\ tok.id \in Values(fqdn_object_groups)

\* C7: no parsed rule has a source that is the id of an FQDN object or of a
\* group of the FQDN category (an FQDN group, or the __fqdn__split half of a
\* mixed group).
C7_NoFqdnSource ==
    \A n \in 1 .. Len(acl_list) :
        \A t \in 1 .. Len(acl_list[n].src.toks) : ~IsFqdnRef(acl_list[n].src.toks[t])

\* ------------------------------------------------------------- empty groups
\* C8: every Policy Object Group the passes have created has a non-empty
\* objectIds list.
C8_NoEmptyGroupCreated ==
    \A i \in listed.ngrps + 1 .. Len(remote_grps) : Len(remote_grps[i].objectIds) > 0

\* An address group all of whose members were filtered out has been read and
\* was not created, and a group with a member was created.
C8_Witness ==
    /\ pc = "group" /\ loaded /\ idx > Len(work)
    /\ \E n \in 1 .. Len(broken_objects) :
          broken_objects[n].reason = "contains no valid entries"
    /\ Len(remote_grps) = 1
    /\ Len(remote_grps[1].objectIds) = 1

\* ---------------------------------------------------- unresolved references
\* The source of the rule the loop is at: the name it refers to.
SourceName(rule) ==
    LET n == CHOOSE i \in 1 .. Len(rule.children) :
                 rule.children[i].kw = "source address"
    IN  sanitize_fqdn(SubSeq(rule.children[n].text, 3, Len(rule.children[n].text)))

\* The loop of parse_rules is at an active rule whose source is `name X`, X
\* bound in no table of addresses.
AtUnboundSource ==
    /\ InLoop("rules")
    /\ \E i \in 1 .. Len(work[idx].children) :
          /\ work[idx].children[i].kw = "source address"
          /\ Len(work[idx].children[i].text) > 2
          /\ work[idx].children[i].text[1] = "name"
    /\ SourceName(work[idx]) \notin DOMAIN objects
    /\ SourceName(work[idx]) \notin DOMAIN fqdn_objects
    /\ SourceName(work[idx]) \o RANGE_SUFFIX \notin DOMAIN range_objects

\* C9: a rule with an unbound source reference produces no rule.
C9_UnboundSourceNoRule ==
    [][AtUnboundSource => acl_list' = acl_list]_vars

\* ------------------------------------------------ a rule on its header line
\* The loop of parse_rules is at the stanza `access-rule ipv4 from LAN to WAN
\* action allow source address any service any destination address any`
\* that has no child line.
AtHeaderRule ==
    /\ InLoop("rules")
    /\ work[idx] = HeaderRule("LAN", "WAN", "allow", AnyRef, AnyRef, AnyRef)

\* C10 (as the code has it): with LAN and WAN configured as zones, the
\* stanza that carries all its fields on the header line and has no child
\* line sets no cell of DefaultZoneMap and emits no rule, and it is written
\* to unprocessed_rules.txt with the reason "No valid line entries in rule,
\* skipping..."; with the same fields as child lines the stanza sets
\* DefaultZoneMap["LAN"]["WAN"] to "allow", emits no rule and is not written
\* to unprocessed_rules.txt.
C10_HeaderOnlyRuleIsUnprocessed ==
    [][ /\ AtHeaderRule =>
            /\ default_zone_map' = default_zone_map
            /\ acl_list' = acl_list
            /\ Len(broken_rules') = Len(broken_rules) + 1
            /\ broken_rules'[Len(broken_rules')].about = work[idx].hdr
            /\ broken_rules'[Len(broken_rules')].reason =
                  "No valid line entries in rule, skipping..."
        /\ AtAnyRule("LAN", "WAN", "allow") =>
            /\ <<"LAN", "WAN", "allow">> \in Cells(default_zone_map')
            /\ acl_list' = acl_list
            /\ broken_rules' = broken_rules ]_vars

\* The header-only stanza has been read: one record, no cell, no rule.
C10_Witness ==
    /\ pc = "rules" /\ loaded /\ idx = 2
    /\ work[1] = HeaderRule("LAN", "WAN", "allow", AnyRef, AnyRef, AnyRef)
    /\ "LAN" \in DOMAIN ZONES /\ "WAN" \in DOMAIN ZONES
    /\ Len(broken_rules) = 1
    /\ Cells(default_zone_map) = {}
    /\ acl_list = <<>>

\* C10 (as stated): the header-only stanza sets DefaultZoneMap["LAN"]["WAN"]
\* to "allow", emits no rule and is not written to unprocessed_rules.txt.
C10_HeaderOnlyRuleSetsCell ==
    [][ AtHeaderRule =>
            /\ <<"LAN", "WAN", "allow">> \in Cells(default_zone_map')
            /\ acl_list' = acl_list
            /\ broken_rules' = broken_rules ]_vars

\* ------------------------------------------------------- the flattening
\* The rules written by create_mx_rules, whatever the ruleset.
Emitted == l3_rules \o inbound_rules \o vpn_rules

\* The triples (s, d, v) of the rules of acl_list, by their places.
Triples ==
    {t \in (1 .. Len(acl_list)) \X (1 .. 3) \X (1 .. 3) \X (1 .. 3) :
        /\ t[2] <= Len(acl_list[t[1]].src.toks)
        /\ t[3] <= Len(acl_list[t[1]].dst.toks)
        /\ t[4] <= Len(acl_list[t[1]].services)}

\* What the claim says of the rule of a triple.
OfTriple(t) ==
    LET acl == acl_list[t[1]]
        v   == acl.services[t[4]]
    IN  [srcCidr  |-> acl.src.toks[t[2]],
         destCidr |-> <<acl.dst.toks[t[3]]>>,
         policy   |-> acl.action,
         comment  |-> IF "comment" \in acl.keys THEN acl.comment ELSE "",
         destPort |-> IF v[2] = <<"N/A">> THEN <<"any">> ELSE v[2]]

OfRule(r) ==
    [srcCidr |-> r.srcCidr, destCidr |-> r.destCidr, policy |-> r.policy,
     comment |-> r.comment, destPort |-> r.destPort]

\* The sources, destinations and services of every rule are at most three.
WithinThree ==
    \A a \in 1 .. Len(acl_list) :
        /\ Len(acl_list[a].src.toks) <= 3 /\ Len(acl_list[a].dst.toks) <= 3
        /\ Len(acl_list[a].services) <= 3

\* C12: create_mx_rules emits, for every rule of acl_list, exactly one rule
\* per triple (s, d, v) of its sources, destinations and services, with
\* srcCidr = s, destCidr = d, policy = the action, comment = the comment or
\* the empty string, and destPort = the port expression of v, or "any" when
\* it is N/A; a scalar source or destination is a list of one.
C12_OneRulePerTriple ==
    [][ pc = "mx_rules" =>
          /\ WithinThree
          /\ Len(Emitted') = Cardinality(Triples)
          /\ \A p \in {OfTriple(t) : t \in Triples}
                      \cup {OfRule(Emitted'[n]) : n \in 1 .. Len(Emitted')} :
                Cardinality({n \in 1 .. Len(Emitted') : OfRule(Emitted'[n]) = p})
                  = Cardinality({t \in Triples : OfTriple(t) = p}) ]_vars

\* A rule with two sources, two destinations, two services and a comment has
\* been flattened to eight rules.
C12_Witness ==
    /\ pc = "vlan_ask"
    /\ Len(acl_list) = 1
    /\ Len(acl_list[1].src.toks) = 2 /\ Len(acl_list[1].dst.toks) = 2
    /\ Len(acl_list[1].services) = 2
    /\ acl_list[1].comment = "c1"
    /\ Len(Emitted) = 8
    /\ \E n \in 1 .. Len(Emitted) : Emitted[n].destPort = <<"any">>

\* ------------------------------------------------------------- the mapping
\* The ruleset the claim gives the rule of a triple.
Target(t) ==
    IF ~MAPPING_FLAG THEN "outbound"
    ELSE IF acl_list[t[1]].src_zone \in {"WAN"} THEN "inbound"
    ELSE IF acl_list[t[1]].src_zone \in {"VPN", "SSLVPN"}
            \/ acl_list[t[1]].dst_zone \in {"VPN", "SSLVPN"} THEN "site2site"
    ELSE "outbound"

\* A ruleset holds the rules of the triples it is the target of, each once.
Delivered(rules, set) ==
    /\ Len(rules) = Cardinality({t \in Triples : Target(t) = set})
    /\ \A p \in {OfTriple(t) : t \in Triples} :
          Cardinality({n \in 1 .. Len(rules) : OfRule(rules[n]) = p})
            = Cardinality({t \in Triples : Target(t) = set /\ OfTriple(t) = p})

\* C13: every flattened rule is delivered to exactly one ruleset and none is
\* lost.  With the mapping: to the inbound ruleset if its source zone is in
\* INBOUND, otherwise to the site-to-site ruleset if its source or destination
\* zone is in SITE2SITE, otherwise to the outbound L3 ruleset.  Without the
\* mapping: every rule to the outbound L3 ruleset, the two others not written.
C13_EveryRuleInOneRuleset ==
    [][ pc = "mx_rules" =>
          /\ WithinThree
          /\ Delivered(l3_rules', "outbound")
          /\ IF MAPPING_FLAG
             THEN /\ Delivered(inbound_rules', "inbound")
                  /\ Delivered(vpn_rules', "site2site")
             ELSE UNCHANGED <<inbound_rules, vpn_rules>> ]_vars

\* With the mapping, the rule from WAN (INBOUND) to VPN (SITE2SITE) is in the
\* inbound ruleset alone.
C13_Witness ==
    /\ pc = "vlan_ask" /\ MAPPING_FLAG
    /\ Len(acl_list) = 1
    /\ acl_list[1].src_zone = "WAN" /\ acl_list[1].dst_zone = "VPN"
    /\ Len(inbound_rules) = 1 /\ vpn_rules = <<>> /\ l3_rules = <<>>

\* ---------------------------------------------------- the order of passes
PassOrder == <<"main", "list", "ipv4", "fqdn", "group", "group6", "nested",
               "service", "sgroup", "snested", "rules", "mx_rules", "vlan_ask",
               "vlan_rules", "csv", "done">>

Rank(p) == CHOOSE i \in 1 .. Len(PassOrder) : PassOrder[i] = p

\* The pass of the stanzas that bind names in a table, or create remotely.
Changes(table, passes) == table' # table => pc \in passes

\* C14: the passes run in the order IPv4 address objects, FQDN objects,
\* non-nested IPv4 groups, IPv6 groups, nested IPv4 groups, service objects,
\* non-nested service groups, nested service groups, and then the rules: a
\* pass begins only when every stanza of the pass before it has been
\* processed, a table is written and a creation call is issued only during
\* the pass of its stanzas, and no rule is parsed before the last pass ended.
C14_PassesInOrder ==
    [][ /\ pc' # pc => pc' = "abort" \/ Rank(pc') = Rank(pc) + 1
        /\ (pc \in Passes /\ pc' \notin {pc, "abort"}) =>
              /\ loaded /\ ~pending.on /\ idx > Len(work)
              /\ work = Found(pc, file[Category(pc)])
        /\ Changes(objects, {"list", "ipv4"})
        /\ Changes(range_objects, {"list", "ipv4"})
        /\ Changes(fqdn_objects, {"list", "fqdn"})
        /\ Changes(object_groups, {"list", "group", "group6"})
        /\ Changes(fqdn_object_groups, {"list", "group6"})
        /\ Changes(group_of_groups, {"nested"})
        /\ Changes(service_objects, {"service"})
        /\ Changes(service_object_groups, {"sgroup"})
        /\ Changes(service_group_of_groups, {"snested"})
        /\ Changes(remote_objs, {"ipv4", "fqdn"})
        /\ Changes(remote_grps, {"ipv4", "group", "group6"})
        /\ Changes(acl_list, {"rules"})
        /\ Changes(broken_rules, {"rules"}) ]_vars

\* A rule has been parsed, after the pass that created an object.
C14_Witness ==
    /\ pc = "rules" /\ loaded /\ idx = 2 /\ Len(work) = 1
    /\ listed.nobjs = 0 /\ Len(remote_objs) = 1
    /\ Len(file["ipv4"]) = 1

\* ------------------------------------------------------ no stanza is fatal
\* C15: without errors of the Dashboard the pipeline is aborted by no stanza:
\* a stanza with an unsupported or malformed construct (a network line with a
\* mask that is not in the table, a range with lo > hi, a service object with
\* an unrecognized protocol or missing ports, an unresolved reference, a
\* redefinition, an empty group, an inactive rule, a destination `group X`
\* with X__range__ bound) is dropped and the run goes on.
C15_NoStanzaAborts == pc # "abort"

\* ------------------------------------------------- every skip is journaled
ObjectPasses == Passes \ {"rules"}

\* The loop of an object pass goes over a stanza and leaves every table and
\* the organization as they were.
Skipped ==
    /\ pc \in ObjectPasses /\ InLoop(pc) /\ pc' # "abort"
    /\ UNCHANGED <<addr_tabs, svc_tabs, remote>>

\* The rule the loop of parse_rules is at has `any` as its source, its
\* destination and its service.
IsAnyRule ==
    \A i \in 1 .. Len(work[idx].children) :
        work[idx].children[i].kw
            \in {"source address", "destination address", "service"}
          => work[idx].children[i].text = AnyRef

\* C16: every stanza the object passes skip without a table entry and without
\* a remote object has a record in unprocessed_objects.txt; every rule that
\* yields no firewall rule and is not an any/any/any rule has one record in
\* unprocessed_rules.txt.
C16_EverySkipJournaled ==
    [][ /\ Skipped => Len(broken_objects') > Len(broken_objects)
        /\ (InLoop("rules") /\ pc' # "abort" /\ acl_list' = acl_list /\ ~IsAnyRule) =>
              Len(broken_rules') = Len(broken_rules) + 1 ]_vars

\* ------------------------------------------------------- the split groups
\* The ids of the members of a kind ("fqdn", "ipv4") of the stanza that are
\* bound, in the order of the stanza.
RECURSIVE BoundMembers(_, _)
BoundMembers(lines, kind) ==
    IF lines = <<>> THEN <<>>
    ELSE LET l == Head(lines)
             name == IF kind = "fqdn" THEN sanitize_fqdn(Strip(l.text))
                     ELSE sanitize_ipv4(Strip(l.text))
             table == IF kind = "fqdn" THEN fqdn_objects ELSE objects
         IN  (IF l.kw = "address-object " \o kind /\ name \in DOMAIN table
              THEN <<table[name]>> ELSE <<>>)
             \o BoundMembers(Tail(lines), kind)

GroupNames == DOMAIN object_groups \cup DOMAIN fqdn_object_groups

\* The loop of pass 4 is at the first definition of a group.
AtGroup6 ==
    /\ InLoop("group6")
    /\ LET N == sanitize_quote(work[idx].text)
       IN  {N, N \o FQDN_SPLIT, N \o IPV4_SPLIT} \cap GroupNames = {}

GroupNs == {<<"mix">>, <<"fg">>, <<"v4">>, <<"fz">>}

\* What pass 4 makes of the group N with the ids f of its FQDN members and
\* the ids m of its IPv4 members.
SplitsOrKeeps(N, f, m) ==
    /\ (f # <<>> /\ m # <<>>) =>
          /\ Len(remote_grps') = Len(remote_grps) + 2
          /\ {remote_grps'[Len(remote_grps) + 1], remote_grps'[Len(remote_grps) + 2]}
               = {Group(N \o FQDN_SPLIT, f), Group(N \o IPV4_SPLIT, m)}
          /\ \A i \in 1 .. Len(remote_grps') : remote_grps'[i].name # N
          /\ N \notin DOMAIN fqdn_object_groups' \cup DOMAIN object_groups'
    /\ (f # <<>> /\ m = <<>>) =>
          /\ remote_grps' = Append(remote_grps, Group(N, f))
          /\ N \in DOMAIN fqdn_object_groups'

\* The rule at which the loop of parse_rules is has `group N` as its
\* destination, N being split.
AtSplitDestination(N) ==
    /\ InLoop("rules")
    /\ \E i \in 1 .. Len(work[idx].children) :
          /\ work[idx].children[i].kw = "destination address"
          /\ work[idx].children[i].text = GroupRef(N)
    /\ N \o FQDN_SPLIT \in DOMAIN fqdn_object_groups
    /\ N \o IPV4_SPLIT \in DOMAIN object_groups
    /\ N \notin GroupNames

\* C18: an `address-group ipv6 N` stanza with at least one bound FQDN member
\* and at least one bound IPv4 member produces exactly two remote groups,
\* N__fqdn__split of the FQDN ids and N__ipv4__split of the IPv4 ids, and no
\* group named N; with FQDN members only it produces exactly one group named
\* N, of FQDN objects; a rule with destination `group N`, N split, resolves
\* to [GRP[fqdn split], GRP[ipv4 split]] and, with one source and one
\* service, flattens to two rules.
C18_MixedGroupIsSplit ==
    [][ /\ AtGroup6 =>
              SplitsOrKeeps(sanitize_quote(work[idx].text),
                            BoundMembers(work[idx].children, "fqdn"),
                            BoundMembers(work[idx].children, "ipv4"))
        /\ \A N \in GroupNs :
              (AtSplitDestination(N) /\ acl_list' # acl_list) =>
                  acl_list'[Len(acl_list')].dst =
                      List(<<GRP(fqdn_object_groups[N \o FQDN_SPLIT]),
                             GRP(object_groups[N \o IPV4_SPLIT])>>)
        /\ (/\ pc = "mx_rules" /\ Len(acl_list) = 1
            /\ acl_list[1].dst.list /\ Len(acl_list[1].dst.toks) = 2
            /\ Len(acl_list[1].src.toks) = 1 /\ Len(acl_list[1].services) = 1) =>
               Len(Emitted') = 2 ]_vars

\* The rule with destination `group mix` has been flattened to two rules, on
\* the two groups of the split.
C18_Witness ==
    /\ pc = "vlan_ask"
    /\ Len(acl_list) = 1 /\ Len(Emitted) = 2
    /\ acl_list[1].src = Scalar(ANY)
    /\ <<"mix">> \o FQDN_SPLIT \in DOMAIN fqdn_object_groups
    /\ <<"mix">> \o IPV4_SPLIT \in DOMAIN object_groups
    /\ acl_list[1].dst = List(<<GRP(fqdn_object_groups[<<"mix">> \o FQDN_SPLIT]),
                                GRP(object_groups[<<"mix">> \o IPV4_SPLIT])>>)
    /\ <<"fg">> \in DOMAIN fqdn_object_groups

\* ------------------------------------------------------ write-once tables
\* Every binding of the table t is a binding of the table u.
Kept(t, u) == \A n \in DOMAIN t : n \in DOMAIN u /\ u[n] = t[n]

RulePhases == {"rules", "mx_rules", "vlan_ask", "vlan_rules", "csv"}

AddressBindingsKept ==
    /\ Kept(objects, objects') /\ Kept(fqdn_objects, fqdn_objects')
    /\ Kept(range_objects, range_objects') /\ Kept(object_groups, object_groups')
    /\ Kept(fqdn_object_groups, fqdn_object_groups')
    /\ Kept(range_object_groups, range_object_groups')
    /\ Kept(group_of_groups, group_of_groups')

ServiceGroupBindingsKept ==
    /\ Kept(service_object_groups, service_object_groups')
    /\ Kept(service_group_of_groups, service_group_of_groups')

\* C19: once a name is bound in one of the ten symbol tables, no step of the
\* run removes the binding or changes its value, whatever later stanzas
\* define; the steps of rule parsing and rule flattening leave the tables
\* unchanged.
C19_BindingsWriteOnce ==
    [][ /\ AddressBindingsKept
        /\ ServiceGroupBindingsKept
        /\ Kept(service_objects, service_objects')
        /\ (pc \in RulePhases => UNCHANGED <<addr_tabs, svc_tabs>>) ]_vars

\* ---------------------------------------------------- forward references
\* The stanzas of the file that define a name.
Definitions ==
    {d \in (DOMAIN file \ {"rules"}) \X (1 .. MaxStanzas + 1) : d[2] <= Len(file[d[1]])}

\* No sanitized name is defined twice in the file.
NoNameTwice ==
    \A d, e \in Definitions :
        d # e => SanitizedName(file[d[1]][d[2]]) # SanitizedName(file[e[1]][e[2]])

\* C20: for a file in which no sanitized name is defined twice, the run on
\* the stanzas in another order binds the same names in each symbol table,
\* creates the same groups with the same members, and resolves each rule to
\* the same references.
C20_OrderDoesNotMatter ==
    (run = 2 /\ pc \in {"done", "abort"} /\ NoNameTwice) => Outcome = earlier

\* ------------------------------------------------------ the exit splitter
\* The child lines of the stanza of the file, and the places of its
\* partitions: a partition ends with an `exit` line or with the last line.
ChildrenRead == file["ipv4"][1].children

PartitionEnds ==
    {i \in 1 .. Len(ChildrenRead) : ChildrenRead[i].kw = "exit" \/ i = Len(ChildrenRead)}

\* The k-th partition.
Partition(k) ==
    LET ends  == PartitionEnds
        upto(n) == CHOOSE e \in ends : Cardinality({d \in ends : d <= e}) = n
    IN  SubSeq(ChildrenRead, IF k = 1 THEN 1 ELSE upto(k - 1) + 1, upto(k))

\* The stanzas of pass 1 have been found and split.
SplitDone == mode = "split" /\ pc = "ipv4" /\ loaded /\ idx = 1

\* C21: a stanza whose child lines are divided by `exit` lines into p
\* partitions gives p stanzas: the original with the first partition, and
\* for each later partition a new stanza named after the `name` line that
\* starts it and holding its lines; a stanza without `exit` is unchanged.
C21_OneStanzaPerPartition ==
    SplitDone =>
       LET p == Cardinality(PartitionEnds)
       IN  IF p = 0 \/ \A i \in 1 .. Len(ChildrenRead) : ChildrenRead[i].kw # "exit"
           THEN work = file["ipv4"]
           ELSE /\ Len(work) = p
                /\ work[1].text = <<"h3">>
                /\ \A k \in 1 .. p : work[k].children = Partition(k)
                /\ \A k \in 2 .. p : work[k].text = Strip(LineText(Partition(k)[1]))

\* ------------------------------------------- source and destination agree
\* The names the rules of the files refer to.
RefNames == {h1, r1, f1, g1, zz, <<"gr">>, <<"mix">>, <<"fg">>, <<"n1">>}

\* The reference resolves alike in the source slot and in the destination
\* slot: the same value, or a rejection in both.
ResolvesAlike(r) ==
    LET agree(s, d) ==
            \/ s.res = "Success" /\ d.res = "Success" /\ s.acl.src = d.acl.dst
            \/ s.res \notin {"Success", "crash"} /\ d.res \notin {"Success", "crash"}
    IN  agree(source_parser(r, EmptyAcl), destination_parser(r, EmptyAcl))

\* The tables are those of the objects of the file: the rules are parsed.
TablesBuilt == mode = "rules" /\ pc = "rules" /\ loaded

\* C22: a reference that does not resolve to an FQDN object or an FQDN group
\* resolves alike in the source slot and in the destination slot; `group X`
\* with X__range__ bound in range_object_groups resolves in both slots to
\* the OBJ tokens of its object ids followed by the GRP tokens of its range
\* ids.
C22_SourceAndDestinationAgree ==
    TablesBuilt =>
       /\ ResolvesAlike(AnyRef)
       /\ \A X \in RefNames :
             /\ X \notin DOMAIN fqdn_objects => ResolvesAlike(NameRef(X))
             /\ X \notin DOMAIN fqdn_object_groups => ResolvesAlike(GroupRef(X))
             /\ X \o RANGE_SUFFIX \in DOMAIN range_object_groups =>
                   LET toks == ObjsThenGrps(range_object_groups[X \o RANGE_SUFFIX])
                   IN  /\ source_parser(GroupRef(X), EmptyAcl).acl.src = toks
                       /\ destination_parser(GroupRef(X), EmptyAcl).acl.dst = toks

\* --------------------------------------------------------- inactive rules
AfterRules == {"mx_rules", "vlan_ask", "vlan_rules", "csv", "done"}

\* The stanza has a record in unprocessed_rules.txt.
Journaled(stanza) ==
    \E i \in 1 .. Len(broken_rules) :
        broken_rules[i].kw = stanza.kw /\ broken_rules[i].about = stanza.hdr

\* C23: a rule with a `no enable` child line, wherever the line stands and
\* whatever the other lines say, produces no firewall rule, sets no cell of
\* the default zone map, and has a record in unprocessed_rules.txt.
C23_InactiveRuleSkipped ==
    mode = "inactive" =>
       /\ pc # "abort"
       /\ acl_list = <<>> /\ Handed = {}
       /\ \A c \in Cells(default_zone_map) : c[2] \notin DOMAIN ZONES
       /\ pc \in AfterRules =>
             \A i \in 1 .. Len(file["rules"]) : Journaled(file["rules"][i])

\* ------------------------------------------------ header and child lines
\* The first line of a keyword among the lines.
FirstOf(lines, kw) ==
    lines[CHOOSE i \in 1 .. Len(lines) :
             /\ lines[i].kw = kw
             /\ \A j \in 1 .. i - 1 : lines[j].kw # kw]

Gives(lines, kw) == \E i \in 1 .. Len(lines) : lines[i].kw = kw

\* The header and the child lines of the rule both give the field.
BothGive(kw) == Gives(work[idx].hdr, kw) /\ Gives(work[idx].children, kw)

\* C24: when the header of a rule and a child line both give a value for a
\* field (zones, action, source, destination, service), the parsed rule
\* carries the value of the child line; so does a sub-rule produced by
\* splitting at `exit`, whose header is that of its parent.
C24_ChildLinesWin ==
    [][ (InLoop("rules") /\ Len(acl_list') = Len(acl_list) + 1) =>
           LET acl == acl_list'[Len(acl_list')]
               child(kw) == FirstOf(work[idx].children, kw)
           IN  /\ BothGive("from") => acl.src_zone = child("from").s
               /\ BothGive("to") => acl.dst_zone = child("to").s
               /\ BothGive("action") => acl.action = child("action").s
               /\ BothGive("source address") =>
                     acl.src = source_parser(child("source address").text, EmptyAcl).acl.src
               /\ BothGive("destination address") =>
                     acl.dst = destination_parser(child("destination address").text,
                                                  EmptyAcl).acl.dst
               /\ BothGive("service") =>
                     acl.services = service_parser(child("service").text,
                                                   EmptyAcl).acl.services ]_vars

\* -------------------------------------------------------- the VLAN rules
\* The zones that are local VLANs.
VlanZones == {z \in DOMAIN ZONES : ZONES[z] # ""}

\* The VLAN zones the source zone is denied to reach by default.
DeniedFrom(src) ==
    {dst \in VlanZones : <<src, dst, "deny">> \in Cells(default_zone_map)}

\* The rule synthesized for the source zone.
IsVlanRule(rule, src) ==
    /\ rule.policy = "deny"
    /\ rule.srcCidr = VLAN(ZONES[src])
    /\ Range(rule.destCidr) = {VLAN(ZONES[dst]) : dst \in DeniedFrom(src)}
    /\ Len(rule.destCidr) = Cardinality(DeniedFrom(src))

\* C25: create_vlan_rules writes the outbound rules read back, unchanged and
\* in their order, followed by the synthesized rules: for each source zone
\* with a VLAN id at most one rule, deny, from VLAN(src).* to the VLAN(dst).*
\* of exactly the destination zones with a VLAN id whose default is deny, and
\* no rule when there is no such destination.
C25_VlanRulesAfterOutbound ==
    [][ (pc = "vlan_rules" /\ VLAN_ANSWER) =>
           /\ Len(l3_rules') >= Len(l3_rules)
           /\ SubSeq(l3_rules', 1, Len(l3_rules)) = l3_rules
           /\ LET new == SubSeq(l3_rules', Len(l3_rules) + 1, Len(l3_rules'))
              IN  /\ \A i \in 1 .. Len(new) :
                        \E src \in VlanZones : IsVlanRule(new[i], src)
                  /\ \A src \in VlanZones :
                        Cardinality({i \in 1 .. Len(new) :
                                        new[i].srcCidr = VLAN(ZONES[src])})
                           = IF DeniedFrom(src) = {} THEN 0 ELSE 1 ]_vars

\* The outbound rule on h1 is followed by the rule that denies LAN both
\* VLAN zones.
C25_Witness ==
    /\ mode = "vlan" /\ pc = "csv" /\ VLAN_ANSWER
    /\ Len(l3_rules) = 2
    /\ l3_rules[1].policy = "allow"
    /\ IsVlanRule(l3_rules[2], "LAN")
    /\ DeniedFrom("LAN") = {"LAN", "DMZ"}

\* ----------------------------------------------------------- sanitization
\* The group of the file that has the named entity as a member holds it.
MemberResolved ==
    /\ g1 \in {file["group4"][i].text : i \in 1 .. Len(file["group4"])} =>
          g1 \in DOMAIN object_groups
    /\ <<"n1">> \in {file["group4"][i].text : i \in 1 .. Len(file["group4"])} =>
          /\ <<"n1">> \in DOMAIN group_of_groups
          /\ Len(group_of_groups[<<"n1">>][2]) = 1
    /\ <<"fg">> \in {file["group6"][i].text : i \in 1 .. Len(file["group6"])} =>
          <<"fg">> \in DOMAIN fqdn_object_groups
    /\ <<"sg">> \in {file["sgroup"][i].text : i \in 1 .. Len(file["sgroup"])} =>
          <<"sg">> \in DOMAIN service_object_groups
    /\ <<"sn">> \in {file["sgroup"][i].text : i \in 1 .. Len(file["sgroup"])} =>
          /\ <<"sn">> \in DOMAIN service_group_of_groups
          /\ Len(service_group_of_groups[<<"sn">>]) = 2

\* C26: whatever the raw identifier N (quoted or not, holding `.`, `:` or
\* `*`) and whatever the category, the key a stanza named N is stored under
\* is the key computed where a group member line or a rule slot names N: the
\* group holds the entity and the rule resolves.
C26_DefinedNameResolves ==
    mode = "names" =>
       /\ pc # "abort"
       /\ pc \in AfterRules => Len(acl_list) = 1 /\ MemberResolved

\* ----------------------------------------------- words inside identifiers
\* The name of the entity of the category that the file is about, <<>> when
\* the file is about another category.
Subject(c) ==
    CASE c = "ipv4"    -> IF Len(file["ipv4"]) = 3 THEN file["ipv4"][3].text ELSE <<>>
      [] c = "fqdn"    -> IF Len(file["fqdn"]) = 2 THEN file["fqdn"][2].text ELSE <<>>
      [] c = "group4"  -> IF Len(file["group4"]) = 2 THEN file["group4"][1].text ELSE <<>>
      [] c = "group6"  -> IF Len(file["group6"]) = 1 /\ file["group6"][1].text # <<"fg">>
                          THEN file["group6"][1].text ELSE <<>>
      [] c = "service" -> IF Len(file["service"]) = 2 THEN file["service"][2].text ELSE <<>>
      [] c = "sgroup"  -> IF Len(file["sgroup"]) = 2 THEN file["sgroup"][1].text ELSE <<>>

\* The slot of the parsed rule that names X holds what the table of the
\* category binds X to.
LookedUp(acl, c, X) ==
    CASE c = "ipv4"    -> X \in DOMAIN objects /\ acl.src = Scalar(OBJ(objects[X]))
      [] c = "group4"  -> X \in DOMAIN object_groups
                          /\ acl.src = Scalar(GRP(object_groups[X]))
      [] c = "fqdn"    -> X \in DOMAIN fqdn_objects
                          /\ acl.dst = Scalar(OBJ(fqdn_objects[X]))
      [] c = "group6"  -> X \in DOMAIN fqdn_object_groups
                          /\ acl.dst = Scalar(GRP(fqdn_object_groups[X]))
      [] c = "service" -> X \in DOMAIN service_objects
                          /\ acl.services = <<service_objects[X]>>
      [] c = "sgroup"  -> X \in DOMAIN service_object_groups
                          /\ acl.services = <<<<"TCP", <<"80">>>>>>

\* C27: a rule slot `name X` or `group X` is resolved by looking X up in the
\* tables of its kind, also when X holds the word any, name or group: the
\* rule that names a defined entity is parsed, and its slot holds the value
\* bound to X, never the literal any.
C27_WordsInsideNames ==
    mode = "names" /\ pc \in AfterRules =>
       /\ Len(acl_list) = 1
       /\ \A c \in NameCategories :
             Subject(c) # <<>> => LookedUp(acl_list[1], c, Subject(c))

\* ------------------------------------------------------------ source port
\* The value of the `source port` child line of the rule, "any" without one.
SourcePortOf(stanza) ==
    LET ports == SelectSeq(stanza.children, LAMBDA l : l.kw = "source port")
    IN  IF ports = <<>> THEN "any" ELSE ports[1].s

\* C28: every firewall rule made from a rule of the file has as srcPort the
\* value of the rule's `source port` line, "any" when the rule has none.
C28_SourcePortKept ==
    mode = "rules" /\ pc = "vlan_ask" =>
       \A fr \in Handed :
          \E i \in 1 .. Len(file["rules"]) :
              fr.srcPort = SourcePortOf(file["rules"][i])

\* ---------------------------------------------------------- nested groups
\* The member lines of the nested group of the file.
NestMembers == file["group4"][4].children

\* The references a member line stands for: the object, the group of the
\* range, the group, and for a group that has no group of its own on the
\* Dashboard (a group with a range member, a nested group) those of its
\* members.
MemberRefs(l) ==
    LET host  == OBJ(objects[h1])
        range == GRP(range_objects[r1 \o RANGE_SUFFIX])
        flat  == GRP(object_groups[g1])
    IN  CASE l = Line("address-object ipv4", h1)     -> {host}
          [] l = Line("address-object ipv4", r1)     -> {range}
          [] l = Line("address-group ipv4", g1)      -> {flat}
          [] l = Line("address-group ipv4", <<"gr">>) -> {range, host}
          [] l = Line("address-group ipv4", <<"n1">>) -> {host, flat}

\* C29: the nested group makes no group on the Dashboard and is bound in
\* group_of_groups, and the rule whose source is the group holds a reference
\* for each of its members: the host object, the range object, the flat
\* group, the group with a range member, the nested group.
C29_NestedGroupExpanded ==
    mode = "nested" /\ pc \in AfterRules =>
       /\ \A i \in 1 .. Len(remote_grps) : remote_grps[i].name # <<"nest">>
       /\ <<"nest">> \in DOMAIN group_of_groups
       /\ Len(acl_list) = 1
       /\ \A i \in 1 .. Len(NestMembers) :
             MemberRefs(NestMembers[i]) \subseteq Range(acl_list[1].src.toks)

\* ------------------------------------------------------ the order of rules
\* The lists of a list, one after the other.
RECURSIVE Cat(_)
Cat(lists) == IF lists = <<>> THEN <<>> ELSE Head(lists) \o Cat(Tail(lists))

\* The place of the first `exit` line that has lines after it, 0 when the
\* stanza has none.
ExitAt(stanza) ==
    LET at == {i \in 1 .. Len(stanza.children) - 1 : stanza.children[i].kw = "exit"}
    IN  IF at = {} THEN 0 ELSE CHOOSE i \in at : \A j \in at : i <= j

\* The stanza as it stands in the file, with its lines up to the `exit`; and
\* the sub-rule of the lines after it.
OriginalOf(stanza) ==
    IF ExitAt(stanza) = 0 THEN stanza
    ELSE [stanza EXCEPT !.children = SubSeq(@, 1, ExitAt(stanza))]
SubRuleOf(stanza) ==
    [stanza EXCEPT !.children = SubSeq(@, ExitAt(stanza) + 1, Len(@))]

\* The records of a stanza: for each source, for each destination, for each
\* service, one record; none when the stanza is not returned as a rule.
RecordsOf(stanza) ==
    LET r == parse_line(stanza)
        records(acl, S, D, V) ==
            Cat([i \in 1 .. Len(S) |->
                   Cat([j \in 1 .. Len(D) |->
                          [k \in 1 .. Len(V) |-> rule_of(acl, S[i], D[j], V[k])]])])
    IN  IF r.res = "acl"
        THEN records(r.acl, r.acl.src.toks, r.acl.dst.toks, r.acl.services)
        ELSE <<>>

\* The records of the file: those of its stanzas in the order of the file,
\* then those of the sub-rules.
RecordsInOrder(stanzas) ==
    Cat([i \in 1 .. Len(stanzas) |-> RecordsOf(OriginalOf(stanzas[i]))])
    \o Cat([i \in 1 .. Len(stanzas) |->
              IF ExitAt(stanzas[i]) = 0 THEN <<>> ELSE RecordsOf(SubRuleOf(stanzas[i]))])

\* The records of a ruleset, in their order.
OfRuleset(records, set) ==
    LET mine == SelectSeq(records, LAMBDA r : ruleset_of(r) = set)
    IN  [i \in 1 .. Len(mine) |-> mine[i].rule]

\* C30: each ruleset written to the Dashboard holds the records of the
\* stanzas of the file in the order of the file, each stanza's records with
\* the source varying slowest and the service fastest, and after the records
\* of all these stanzas the records of the sub-rules made at `exit` lines.
C30_EmittedInFileOrder ==
    mode = "emit" /\ pc = "vlan_ask" =>
       LET records == RecordsInOrder(file["rules"])
       IN  IF MAPPING_FLAG
           THEN /\ l3_rules = OfRuleset(records, "outbound")
                /\ inbound_rules = OfRuleset(records, "inbound")
                /\ vpn_rules = OfRuleset(records, "site2site")
           ELSE l3_rules = [i \in 1 .. Len(records) |-> records[i].rule]

\* The rule with the `exit` line stands before the rule of eight records:
\* the record of the sub-rule is the last of the outbound rules.
C30_Witness ==
    /\ mode = "emit" /\ pc = "vlan_ask" /\ MAPPING_FLAG
    /\ Len(file["rules"]) = 2
    /\ ExitAt(file["rules"][1]) # 0 /\ ExitAt(file["rules"][2]) = 0
    /\ Len(l3_rules) = 10
    /\ l3_rules[1].comment = "c1" /\ l3_rules[10].comment = "c2"

====
